---- MODULE Spec2Model ----
(***************************************************************************)
(* A model of the Maya Scene Lights panel:                                 *)
(*   mayautils.py                       undo_chunk, undo_on_error          *)
(*   MayaSceneLights_applyChanges.py    change_intensity, change_color     *)
(*   MayaSceneLights_pysideWindow.py    LightInterfaceWindow               *)
(*   MayaSceneLights_mayaWindow.py      show() and its handler closures    *)
(*                                                                         *)
(* The program is single-threaded and event driven: every handler runs to  *)
(* completion, so one action of the model is one handler, with every host  *)
(* call it makes.  The host document (Maya) is the record `host`; the      *)
(* calls a handler makes on it are recorded, in order, in `log`.           *)
(***************************************************************************)
EXTENDS Integers, Sequences, FiniteSets, TLC

VARIABLES
    host,   \* the host document: nodes, attributes, animation keys, time, undo state
    win,    \* the LightInterfaceWindow instance of the live panel, or NoWindow
    log,    \* the host calls made by the last handler, in order
    last,   \* the last operation: its name, its arguments, the exception it ended with
    pre,    \* the host document as it was when the last operation started
    calls   \* number of operations so far (bounded per specification)

vars == <<host, win, log, last, pre, calls>>

(***************************************************************************)
(* Bounds of the model.                                                    *)
(***************************************************************************)
MaxEngineCalls == 1      \* direct calls of the engine per behaviour of SpecEngine

(***************************************************************************)
(* Python floats, modelled exactly as normalised fractions <<n, d>>, d > 0 *)
(***************************************************************************)
\* F applied to the value of x
Bind(x, F(_)) == CHOOSE r \in {F(v) : v \in {x}} : TRUE

Range(s) == {s[i] : i \in 1..Len(s)}
Distinct(s) == \A i, j \in 1..Len(s) : i # j => s[i] # s[j]

Abs(n) == IF n < 0 THEN -n ELSE n

RECURSIVE GCD(_, _)
GCD(a, b) == IF b = 0 THEN a ELSE GCD(b, a % b)

Rat(n, d) ==
    LET g == GCD(Abs(n), Abs(d))
        s == IF d < 0 THEN -1 ELSE 1
    IN  <<(s * n) \div g, (s * d) \div g>>

RAdd(x, y) ==
    LET g == GCD(x[2], y[2])
    IN  Rat(x[1] * (y[2] \div g) + y[1] * (x[2] \div g), (x[2] \div g) * y[2])

RMul(x, y) ==
    LET g1 == GCD(Abs(x[1]), y[2])
        g2 == GCD(Abs(y[1]), x[2])
    IN  Rat((x[1] \div g1) * (y[1] \div g2), (x[2] \div g2) * (y[2] \div g1))

RDiv(x, y) == RMul(x, Rat(y[2], y[1]))

(***************************************************************************)
(* Light transform names are strings of the program; they are sequences of *)
(* characters here so that substring search can be computed.               *)
(***************************************************************************)
lightA == <<"l", "A">>
spotB  == <<"s", "B">>
AllNames == {lightA, spotB}

\* the timeline frames of the model
Frames == {1, 2}

Channels == {"intensity", "colorR", "colorG", "colorB",
             "shadColorR", "shadColorG", "shadColorB"}

White == <<Rat(1, 1), Rat(1, 1), Rat(1, 1)>>
Black == <<Rat(0, 1), Rat(0, 1), Rat(0, 1)>>

NoWindow == [live |-> FALSE]

DefaultLayer == "defaultRenderLayer"
Layers == {DefaultLayer, "layer1"}

(***************************************************************************)
(* Host calls (pymel.core).  A handler's progress is a record              *)
(*   [host, win, log, exc, engine]: the document, the window, the host     *)
(* calls made so far, the exception that is propagating ("none" while it   *)
(* runs normally) and the number of calls of the engine.  A call made      *)
(* while an exception propagates does nothing (it is never reached).       *)
(***************************************************************************)
\* `refused` holds what the host refuses during the handler: the events for
\* which a registration fails, and "editRenderLayerMembers" when the members
\* of a render layer cannot be edited.
Start(h, w) ==
    [host |-> h, win |-> w, log |-> <<>>, exc |-> "none", engine |-> 0, refused |-> {}]

Raise(st, e) == IF st.exc # "none" THEN st ELSE [st EXCEPT !.exc = e]

\* pmc.warning(msg)
warning(st, msg) ==
    IF st.exc # "none" THEN st
    ELSE [st EXCEPT !.log = Append(@, <<"warning", msg>>)]

\* (mutant) a cutKey that removes nothing
cutKey_keeps(st, light, lo, hi, attribute) ==
    IF st.exc # "none" THEN st
    ELSE IF light \notin st.host.nodes THEN Raise(st, "MayaNodeError")
    ELSE [st EXCEPT !.log = Append(@, <<"cutKey", light, attribute, lo, hi>>)]

\* pmc.cutKey(light, time=(lo, hi), attribute=attribute): removes the keys in the range
cutKey(st, light, lo, hi, attribute) ==
    IF st.exc # "none" THEN st
    ELSE IF light \notin st.host.nodes THEN Raise(st, "MayaNodeError")
    ELSE [st EXCEPT
            !.host.keys[light][attribute] = {k \in @ : ~(lo <= k[1] /\ k[1] <= hi)},
            !.log = Append(@, <<"cutKey", light, attribute, lo, hi>>)]

\* pmc.setKeyframe(light, time=time, attribute=attribute, value=value).
\* The model does not assume that the host replaces a key already at `time`.
setKeyframe(st, light, time, attribute, value) ==
    IF st.exc # "none" THEN st
    ELSE IF light \notin st.host.nodes THEN Raise(st, "MayaNodeError")
    ELSE [st EXCEPT
            !.host.keys[light][attribute] = @ \cup {<<time, value>>},
            !.log = Append(@, <<"setKeyframe", light, attribute, time, value>>)]

\* pmc.setAttr('%s.%s' % (light, attribute), value)
setAttr(st, light, attribute, value) ==
    IF st.exc # "none" THEN st
    ELSE IF light \notin st.host.nodes THEN Raise(st, "MayaNodeError")
    ELSE [st EXCEPT
            !.host.attr[light][attribute] = value,
            !.log = Append(@, <<"setAttr", light, attribute, value>>)]

\* the part of the document that the undo queue restores
Doc(h) == [attr |-> h.attr, keys |-> h.keys, selection |-> h.selection,
           members |-> h.members]

\* pmc.undoInfo(openChunk=True)
openChunk(st) ==
    IF st.exc # "none" THEN st
    ELSE [st EXCEPT !.host.undoOpen = @ + 1,
                    !.host.undoBase = IF st.host.undoOpen = 0 THEN <<Doc(st.host)>> ELSE @,
                    !.log = Append(@, <<"openChunk">>)]

\* pmc.undoInfo(closeChunk=True): the closed chunk becomes the last entry of
\* the undo queue
closeChunk(st) ==
    IF st.exc # "none" THEN st
    ELSE [st EXCEPT !.host.undoOpen = @ - 1,
                    !.host.undoLast = IF st.host.undoOpen = 1 THEN st.host.undoBase ELSE @,
                    !.host.undoBase = IF st.host.undoOpen = 1 THEN <<>> ELSE @,
                    !.log = Append(@, <<"closeChunk">>)]

\* pmc.undo(): reverts the last entry of the undo queue.  Only chunks are
\* kept in the modelled queue: the program issues undo only right after it
\* has closed a chunk.
undo(st) ==
    IF st.exc # "none" THEN st
    ELSE IF st.host.undoLast = <<>> THEN [st EXCEPT !.log = Append(@, <<"undo">>)]
    ELSE [st EXCEPT !.host.attr = st.host.undoLast[1].attr,
                    !.host.keys = st.host.undoLast[1].keys,
                    !.host.selection = st.host.undoLast[1].selection,
                    !.host.members = st.host.undoLast[1].members,
                    !.host.undoLast = <<>>,
                    !.log = Append(@, <<"undo">>)]

(***************************************************************************)
(* mayautils.py: the context managers.  __exit__ runs whether the body     *)
(* ended normally or raised; it returns None, so the body's exception      *)
(* propagates after it.                                                    *)
(***************************************************************************)
\* st: the state the body ended in; Exit: what __exit__ does
AfterExit(st, s1) == IF s1.exc = "none" THEN [s1 EXCEPT !.exc = st.exc] ELSE s1

undo_chunk_enter(st) == openChunk(st)

\* (mutant) the chunk closed only when the body ended normally
undo_chunk_exit_on_success(st) == closeChunk(st)

\* (mutant) an __exit__ that returns True: the exception of the body stops here
undo_chunk_exit_suppresses(st) == closeChunk([st EXCEPT !.exc = "none"])

undo_chunk_exit(st) == AfterExit(st, closeChunk([st EXCEPT !.exc = "none"]))

undo_on_error_enter(st) == openChunk(st)

\* (mutant) the undo issued while the chunk is still open
undo_on_error_exit_undo_first(st) ==
    LET s1 == IF st.exc # "none" THEN undo([st EXCEPT !.exc = "none"])
              ELSE [st EXCEPT !.exc = "none"]
    IN  AfterExit(st, closeChunk(s1))

undo_on_error_exit(st) ==
    LET s1 == closeChunk([st EXCEPT !.exc = "none"])
        s2 == IF st.exc # "none" THEN undo(s1) ELSE s1
    IN  AfterExit(st, s2)

(***************************************************************************)
(* MayaSceneLights_applyChanges.py                                         *)
(***************************************************************************)
\* the keys of the `operation` table of calculate_value
OperatorKeys == {0, 1, 2, 3}

\* (mutant) the percentage taken of the quantity instead of the current value
calculate_value_percent_of_quantity(quantity, operator, current_value) ==
    CASE operator = 0 -> quantity
      [] operator = 1 -> RAdd(current_value, quantity)
      [] operator = 2 -> RMul(current_value, quantity)
      [] operator = 3 -> RAdd(current_value, RDiv(quantity, Rat(100, 1)))

calculate_value(quantity, operator, current_value) ==
    CASE operator = 0 -> quantity
      [] operator = 1 -> RAdd(current_value, quantity)
      [] operator = 2 -> RMul(current_value, quantity)
      [] operator = 3 -> RAdd(current_value,
                               RDiv(RMul(current_value, quantity), Rat(100, 1)))

\* (mutant) the key cut and set whatever the keyframe flag is
RECURSIVE intensity_loop_always_keys(_, _, _, _, _, _, _)
intensity_loop_always_keys(st, quantity, operator, lights, keyframe, currentFrame, i) ==
    IF i > Len(lights) \/ st.exc # "none" THEN st
    ELSE LET light == lights[i] IN
         IF light \notin st.host.nodes THEN Raise(st, "MayaNodeError")
         ELSE IF operator \notin OperatorKeys THEN Raise(st, "KeyError")
         ELSE LET new_value == calculate_value(quantity, operator,
                                               st.host.attr[light]["intensity"])
                  s1 == setKeyframe(
                            cutKey(st, light, currentFrame, currentFrame, "intensity"),
                            light, currentFrame, "intensity", new_value)
                  s2 == setAttr(s1, light, "intensity", new_value)
              IN  intensity_loop_always_keys(s2, quantity, operator, lights, keyframe,
                                             currentFrame, i + 1)

RECURSIVE intensity_loop(_, _, _, _, _, _, _)
intensity_loop(st, quantity, operator, lights, keyframe, currentFrame, i) ==
    IF i > Len(lights) \/ st.exc # "none" THEN st
    ELSE LET light == lights[i] IN
         IF light \notin st.host.nodes THEN Raise(st, "MayaNodeError")  \* getAttr
         ELSE IF operator \notin OperatorKeys THEN Raise(st, "KeyError")
         ELSE LET new_value == calculate_value(quantity, operator,
                                               st.host.attr[light]["intensity"])
                  s1 == IF keyframe = TRUE
                        THEN setKeyframe(
                                 cutKey(st, light, currentFrame, currentFrame, "intensity"),
                                 light, currentFrame, "intensity", new_value)
                        ELSE st
                  s2 == setAttr(s1, light, "intensity", new_value)
              IN  intensity_loop(s2, quantity, operator, lights, keyframe,
                                 currentFrame, i + 1)

SelectWarning == "Please select one or more lights in the Light Interface window's list"

Called(st) == [st EXCEPT !.engine = @ + 1]

change_intensity(st, quantity, operator, lights, keyframe) ==
    IF st.exc # "none" THEN st
    ELSE IF lights = <<>> THEN warning(Called(st), SelectWarning)
    ELSE intensity_loop(Called(st), quantity, operator, lights, keyframe,
                        st.host.time, 1)

\* (mutant) the shadow colour keyed on the light colour's channels
attr_table_shared_prefix ==
    (1 :> <<"color", "color">>) @@ (2 :> <<"shadowColor", "color">>)

\* attr = {1: ['color', 'color'], 2: ['shadowColor', 'shadColor']}
attr_table == (1 :> <<"color", "color">>) @@ (2 :> <<"shadowColor", "shadColor">>)

rgb_array == <<"R", "G", "B">>

\* The closure reads `light` of the enclosing loop when it is called, which is
\* the light of the running iteration: it is a parameter here.
RECURSIVE set_rgb_keyframes(_, _, _, _, _, _)
set_rgb_keyframes(st, light, prefix, currentFrame, color_value, i) ==
    IF i > Len(rgb_array) \/ st.exc # "none" THEN st
    ELSE LET channel == prefix \o rgb_array[i]
             s1 == cutKey(st, light, currentFrame, currentFrame, channel)
             s2 == setKeyframe(s1, light, currentFrame, channel, color_value[i])
         IN  set_rgb_keyframes(s2, light, prefix, currentFrame, color_value, i + 1)

\* (mutant) the keys set on the last light of the list in every iteration
RECURSIVE color_loop_keys_last(_, _, _, _, _, _, _)
color_loop_keys_last(st, color_value, lights, keyframe, attr, currentFrame, i) ==
    IF i > Len(lights) \/ st.exc # "none" THEN st
    ELSE LET light == lights[i]
             s1 == IF keyframe = TRUE
                   THEN set_rgb_keyframes(st, lights[Len(lights)], attr[2], currentFrame,
                                          color_value, 1)
                   ELSE st
             s2 == setAttr(s1, light, attr[1], color_value)
         IN  color_loop_keys_last(s2, color_value, lights, keyframe, attr, currentFrame,
                                  i + 1)

RECURSIVE color_loop(_, _, _, _, _, _, _)
color_loop(st, color_value, lights, keyframe, attr, currentFrame, i) ==
    IF i > Len(lights) \/ st.exc # "none" THEN st
    ELSE LET light == lights[i]
             s1 == IF keyframe = TRUE
                   THEN set_rgb_keyframes(st, light, attr[2], currentFrame, color_value, 1)
                   ELSE st
             s2 == setAttr(s1, light, attr[1], color_value)
         IN  color_loop(s2, color_value, lights, keyframe, attr, currentFrame, i + 1)

\* (mutant) the attribute table read before the empty-list test
change_color_lookup_first(st, color_value, lights, keyframe, color_or_shadow) ==
    IF st.exc # "none" THEN st
    ELSE IF color_or_shadow \notin DOMAIN attr_table THEN Raise(Called(st), "KeyError")
    ELSE IF lights = <<>> THEN warning(Called(st), SelectWarning)
    ELSE color_loop(Called(st), color_value, lights, keyframe, attr_table[color_or_shadow],
                    st.host.time, 1)

change_color(st, color_value, lights, keyframe, color_or_shadow) ==
    IF st.exc # "none" THEN st
    ELSE IF lights = <<>> THEN warning(Called(st), SelectWarning)
    ELSE IF color_or_shadow \notin DOMAIN attr_table THEN Raise(Called(st), "KeyError")
    ELSE color_loop(Called(st), color_value, lights, keyframe, attr_table[color_or_shadow],
                    st.host.time, 1)

(***************************************************************************)
(* The engine called directly, with every kind of argument.                *)
(***************************************************************************)
Quantities == {Rat(10, 1), Rat(-20, 1)}
OperatorInputs == 0..4
TargetInputs == 1..3
ColorInputs == {<<Rat(1, 1), Rat(0, 1), Rat(1, 2)>>, Black}
LightLists == {<<>>} \cup {<<a>> : a \in AllNames}
                     \cup {<<a, b>> : a \in AllNames, b \in AllNames}

InitAttr == [intensity |-> Rat(5, 1), color |-> White, shadowColor |-> Black]
NoKeys == [c \in Channels |-> {}]

InitKeys ==
    [NoKeys EXCEPT !["intensity"] = {<<1, Rat(2, 1)>>, <<2, Rat(3, 1)>>},
                   !["colorG"] = {<<1, Rat(1, 4)>>, <<2, Rat(3, 4)>>},
                   !["shadColorG"] = {<<1, Rat(1, 4)>>, <<2, Rat(3, 4)>>}]

\* The host document: a scene with two lights (`nodes`: the names that still
\* resolve), at frame t, with animation keys k on every light, the selection
\* sel and the current render layer `layer`.
InitHost(nodes, t, k, sel, layer) ==
    [nodes |-> nodes,
     attr |-> [n \in AllNames |->
                 IF n = lightA THEN InitAttr
                 ELSE [InitAttr EXCEPT !.intensity = Rat(1, 2)]],
     keys |-> [n \in AllNames |-> k],
     time |-> t,
     selection |-> sel,
     currentLayer |-> layer,
     members |-> [y \in Layers |-> IF y = DefaultLayer THEN AllNames ELSE {lightA}],
     undoOpen |-> 0,
     undoBase |-> <<>>,      \* <<Doc>> while a chunk is open
     undoLast |-> <<>>,      \* <<Doc>>: what the last closed chunk started from
     callbacks |-> {},
     nextId |-> 1,
     pending |-> {},
     ui |-> {},              \* the live windows named lightInterfaceUI
     nextPanel |-> 1]

InitRest ==
    /\ win = NoWindow
    /\ log = <<>>
    /\ last = [op |-> "init", exc |-> "none"]
    /\ pre = host
    /\ calls = 0

\* any scene, animated or not, one light possibly deleted (its name is then
\* stale), at any frame of the timeline
InitEngine ==
    /\ \E nodes \in {AllNames, {lightA}}, t \in Frames, k \in {NoKeys, InitKeys} :
         host = InitHost(nodes, t, k, <<>>, DefaultLayer)
    /\ InitRest

ChangeIntensityCall ==
    /\ calls < MaxEngineCalls
    /\ \E quantity \in Quantities, operator \in OperatorInputs,
          lights \in LightLists, keyframe \in BOOLEAN :
         \E st \in {change_intensity(Start(host, win), quantity, operator, lights,
                                     keyframe)} :
         /\ host' = st.host
         /\ log' = st.log
         /\ last' = [op |-> "change_intensity", quantity |-> quantity,
                     operator |-> operator, lights |-> lights,
                     keyframe |-> keyframe, exc |-> st.exc]
    /\ pre' = host
    /\ calls' = calls + 1
    /\ UNCHANGED win

ChangeColorCall ==
    /\ calls < MaxEngineCalls
    /\ \E color_value \in ColorInputs, lights \in LightLists,
          keyframe \in BOOLEAN, color_or_shadow \in TargetInputs :
         \E st \in {change_color(Start(host, win), color_value, lights, keyframe,
                                 color_or_shadow)} :
         /\ host' = st.host
         /\ log' = st.log
         /\ last' = [op |-> "change_color", color_value |-> color_value,
                     lights |-> lights, keyframe |-> keyframe,
                     color_or_shadow |-> color_or_shadow, exc |-> st.exc]
    /\ pre' = host
    /\ calls' = calls + 1
    /\ UNCHANGED win

\* the user moves the timeline: pmc.currentTime(query=True) returns the new frame
CurrentTime ==
    /\ calls < MaxEngineCalls
    /\ \E t \in Frames \ {host.time} :
         host' = [host EXCEPT !.time = t]
    /\ log' = <<>>
    /\ last' = [op |-> "currentTime", exc |-> "none"]
    /\ pre' = host
    /\ calls' = calls + 1
    /\ UNCHANGED win

NextEngine == ChangeIntensityCall \/ ChangeColorCall \/ CurrentTime

SpecEngine == InitEngine /\ [][NextEngine]_vars

(***************************************************************************)
(* Strings: light names and the text of line edits are sequences of        *)
(* characters.                                                             *)
(***************************************************************************)
\* the characters of the model, in code-point order
Alphabet == <<"-", ".", "0", "1", "2", "A", "B", "C", "L", "a", "l", "s", "x">>
Ord(c) == CHOOSE i \in 1..Len(Alphabet) : Alphabet[i] = c

\* s < t, as Python compares strings
RECURSIVE StrLess(_, _)
StrLess(s, t) ==
    IF t = <<>> THEN FALSE
    ELSE IF s = <<>> THEN TRUE
    ELSE IF Ord(s[1]) # Ord(t[1]) THEN Ord(s[1]) < Ord(t[1])
    ELSE StrLess(Tail(s), Tail(t))

\* list.sort() of a list of distinct names
RECURSIVE Sorted(_)
Sorted(S) ==
    IF S = {} THEN <<>>
    ELSE LET m == CHOOSE x \in S : \A y \in S \ {x} : StrLess(x, y)
         IN  <<m>> \o Sorted(S \ {m})

\* (mutant) a search that only looks at the start of the text
find_at_start(text, letters) ==
    IF Len(letters) <= Len(text) /\ SubSeq(text, 1, Len(letters)) = letters
    THEN 0 ELSE -1

\* text.find(letters): the lowest index (from 0) at which letters occurs in
\* text, -1 if it does not occur
find(text, letters) ==
    LET at == {i \in 1..(Len(text) - Len(letters) + 1) :
                 SubSeq(text, i, i + Len(letters) - 1) = letters}
    IN  IF at = {} THEN -1
        ELSE (CHOOSE i \in at : \A j \in at : i <= j) - 1

Digits == <<"0", "1", "2", "3", "4", "5", "6", "7", "8", "9">>
IsDigit(c) == \E i \in 1..Len(Digits) : Digits[i] = c
DigitValue(c) == (CHOOSE i \in 1..Len(Digits) : Digits[i] = c) - 1

RECURSIVE Natural(_)
Natural(s) == IF s = <<>> THEN 0
              ELSE 10 * Natural(SubSeq(s, 1, Len(s) - 1)) + DigitValue(s[Len(s)])

RECURSIVE Pow10(_)
Pow10(n) == IF n = 0 THEN 1 ELSE 10 * Pow10(n - 1)

\* (mutant) a conversion that reads the leading digits and stops at the rest
float_leading_digits(text) ==
    LET stop == {i \in 1..Len(text) : ~IsDigit(text[i])}
        lead == IF stop = {} THEN text
                ELSE SubSeq(text, 1, (CHOOSE i \in stop : \A j \in stop : i <= j) - 1)
    IN  IF lead = <<>> THEN [ok |-> FALSE, value |-> Rat(0, 1)]
        ELSE [ok |-> TRUE, value |-> Rat(Natural(lead), 1)]

\* float(text) on the texts of the model: an optional sign, digits, and an
\* optional point followed by digits; anything else raises ValueError.
float(text) ==
    LET neg  == text # <<>> /\ text[1] = "-"
        body == IF text # <<>> /\ text[1] \in {"-", "+"} THEN Tail(text) ELSE text
        dots == {i \in 1..Len(body) : body[i] = "."}
        ip   == IF dots = {} THEN body
                ELSE SubSeq(body, 1, (CHOOSE i \in dots : TRUE) - 1)
        fp   == IF dots = {} THEN <<>>
                ELSE SubSeq(body, (CHOOSE i \in dots : TRUE) + 1, Len(body))
        ok   == /\ Cardinality(dots) <= 1
                /\ Len(ip) + Len(fp) > 0
                /\ \A i \in 1..Len(ip) : IsDigit(ip[i])
                /\ \A i \in 1..Len(fp) : IsDigit(fp[i])
    IN  IF ~ok THEN [ok |-> FALSE, value |-> Rat(0, 1)]
        ELSE [ok |-> TRUE,
              value |-> RMul(Rat(IF neg THEN -1 ELSE 1, 1),
                             Rat(Natural(ip) * Pow10(Len(fp)) + Natural(fp),
                                 Pow10(Len(fp))))]

(***************************************************************************)
(* MayaSceneLights_pysideWindow.py: LightInterfaceWindow                   *)
(***************************************************************************)
None == <<>>            \* no light (the empty text names no light)
NoLayer == "None"

ShowCurrentText == "Show Current Render Layer Only"
ShowAllText == "Show All Lights"

\* __init__: the fields of a new window and the state of its widgets
\* QtGui.QColor(r, g, b): a colour of the RGB model, each channel kept on
\* 16 bits; the colour a cancelled QColorDialog returns is invalid
QColor(r, g, b) == [cspec |-> "Rgb", argb |-> <<r * 257, g * 257, b * 257>>]
InvalidColor == [cspec |-> "Invalid", argb |-> <<0, 0, 0>>]

\* QColor.red(), green(), blue(): the high 8 bits of the channel
red(color) == color.argb[1] \div 256
green(color) == color.argb[2] \div 256
blue(color) == color.argb[3] \div 256

Max(S) == CHOOSE x \in S : \A y \in S : y <= x
Min(S) == CHOOSE x \in S : \A y \in S : x <= y

\* qRound(a * b / c) for 16-bit a, b, c, the product taken in two halves
MulDivRound(a, b, c) ==
    LET high == (a \div 256) * b
        rest == 256 * (high % c) + (a % 256) * b
    IN  256 * (high \div c) + (2 * rest + c) \div (2 * c)

\* QColor.toHsv(): <<hue in hundredths of a degree, saturation, value>>, the
\* hue of a colour without chroma being 65535
toHsv(color) ==
    LET r == color.argb[1]
        g == color.argb[2]
        b == color.argb[3]
        max == Max({r, g, b})
        delta == max - Min({r, g, b})
        sixth == IF r = max THEN <<IF g < b THEN 6 ELSE 0, g - b>>
                 ELSE IF g = max THEN <<2, b - r>>
                 ELSE <<4, r - g>>
    IN  IF delta = 0 THEN <<65535, 0, max>>
        ELSE <<6000 * sixth[1] + (12000 * sixth[2] + delta) \div (2 * delta),
               MulDivRound(delta, 65535, max), max>>

\* QColor.hue(), saturation(), value()
hue(color) ==
    IF color.cspec = "Invalid" THEN 0
    ELSE IF toHsv(color)[1] = 65535 THEN -1 ELSE toHsv(color)[1] \div 100
saturation(color) == IF color.cspec = "Invalid" THEN 0 ELSE toHsv(color)[2] \div 256
value(color) == IF color.cspec = "Invalid" THEN 0 ELSE toHsv(color)[3] \div 256

\* str(n) of an integer
RECURSIVE str(_)
str(n) == IF n < 0 THEN <<"-">> \o str(-n)
          ELSE IF n < 10 THEN <<Digits[n + 1]>>
          ELSE str(n \div 10) \o <<Digits[(n % 10) + 1]>>

\* int(text): an optional sign and digits
int(text) ==
    LET neg  == text # <<>> /\ text[1] = "-"
        body == IF text # <<>> /\ text[1] \in {"-", "+"} THEN Tail(text) ELSE text
    IN  IF body = <<>> \/ \E i \in 1..Len(body) : ~IsDigit(body[i])
        THEN [ok |-> FALSE, value |-> 0]
        ELSE [ok |-> TRUE, value |-> IF neg THEN -Natural(body) ELSE Natural(body)]

\* (mutant) the hue written as the toolkit gives it
update_lightcolor_boxes_plain_hue(w, color) ==
    [w EXCEPT !.r_textbox = str(red(color)),
              !.g_textbox = str(green(color)),
              !.b_textbox = str(blue(color)),
              !.h_textbox = str(hue(color)),
              !.s_textbox = str(saturation(color)),
              !.v_textbox = str(value(color)),
              !.color_frame = w.color_light]

update_lightcolor_boxes(w, color) ==
    [w EXCEPT !.r_textbox = str(red(color)),
              !.g_textbox = str(green(color)),
              !.b_textbox = str(blue(color)),
              !.h_textbox = IF hue(color) < 0 THEN <<"0">> ELSE str(hue(color)),
              !.s_textbox = str(saturation(color)),
              !.v_textbox = str(value(color)),
              !.color_frame = w.color_light]

update_shadowcolor_boxes(w, color) ==
    [w EXCEPT !.rshadow_textbox = str(red(color)),
              !.gshadow_textbox = str(green(color)),
              !.bshadow_textbox = str(blue(color)),
              !.hshadow_textbox = IF hue(color) < 0 THEN <<"0">> ELSE str(hue(color)),
              !.sshadow_textbox = str(saturation(color)),
              !.vshadow_textbox = str(value(color)),
              !.colorshadow_frame = w.color_shadow]

\* LightInterfaceWindow.__init__; the text boxes of the two colours are filled
\* at the end of it
LightInterfaceWindow(panel) ==
  Bind(
    [live |-> TRUE,                \* the toolkit object exists
     panel |-> panel,              \* which call of show() made it
     visible |-> FALSE,
     active |-> FALSE,             \* isActiveWindow()
     connected |-> FALSE,          \* itemSelectionChanged wired to update_maya_selection
     lightsArray |-> <<>>,         \* also the rows of widgetlist, in order
     selected |-> {},              \* the rows that are highlighted
     hidden |-> {},                \* the rows that are hidden
     render_layer_array |-> {},
     idCallback |-> <<>>,
     latest_light_selected |-> None,
     current_render_layer |-> NoLayer,
     render_layer_only |-> FALSE,
     color_light |-> QColor(255, 255, 255),
     color_shadow |-> QColor(0, 0, 0),
     color_frame |-> QColor(255, 255, 255),        \* colorFrame.color
     colorshadow_frame |-> QColor(0, 0, 0),
     r_textbox |-> <<>>, g_textbox |-> <<>>, b_textbox |-> <<>>,
     h_textbox |-> <<>>, s_textbox |-> <<>>, v_textbox |-> <<>>,
     rshadow_textbox |-> <<>>, gshadow_textbox |-> <<>>, bshadow_textbox |-> <<>>,
     hshadow_textbox |-> <<>>, sshadow_textbox |-> <<>>, vshadow_textbox |-> <<>>,
     renderlayer_button |-> [enabled |-> TRUE, text |-> ShowCurrentText],
     renderlayer_add |-> [enabled |-> TRUE],
     renderlayer_remove |-> [enabled |-> TRUE],
     searchlight_tbox |-> <<>>,
     intensityquantity_textbox |-> <<>>,
     intensityoperator_combo |-> 0,
     keyframeintensity_checkbox |-> FALSE,
     keyframecolor_checkbox |-> FALSE,
     keyframeshadow_checkbox |-> FALSE,
     timeline_listener |-> FALSE,
     currentintensity_label |-> <<"N/A">>],
    LAMBDA w : update_shadowcolor_boxes(update_lightcolor_boxes(w, w.color_light),
                                        w.color_shadow))

\* "%.2f" % quantity: the number of hundredths, rounded
Hundredths(q) == (200 * q[1] + q[2]) \div (2 * q[2])

update_intensity_label(w, quantity) ==
    IF quantity = None THEN [w EXCEPT !.currentintensity_label = <<"N/A">>]
    ELSE [w EXCEPT !.currentintensity_label = <<"%.2f", Hundredths(quantity)>>]

\* QColor.setRedF(f), setGreenF, setBlueF: f brought into 0.0..1.0 and kept
\* on 16 bits
setF(f) ==
    IF f[1] <= 0 THEN 0
    ELSE IF f[1] >= f[2] THEN 65535
    ELSE MulDivRound(65535, f[1], f[2])

setRgbF(rgb_float_array) ==
    [cspec |-> "Rgb", argb |-> <<setF(rgb_float_array[1]), setF(rgb_float_array[2]),
                                 setF(rgb_float_array[3])>>]

\* (mutant) the colour stored, the text boxes and the frame left as they were
receive_mayacolor_stored_only(w, rgb_float_array) ==
    [w EXCEPT !.color_light = setRgbF(rgb_float_array)]

receive_mayacolor(w, rgb_float_array) ==
    update_lightcolor_boxes([w EXCEPT !.color_light = setRgbF(rgb_float_array)],
                            setRgbF(rgb_float_array))

receive_mayashadow(w, rgb_float_array) ==
    update_shadowcolor_boxes([w EXCEPT !.color_shadow = setRgbF(rgb_float_array)],
                             setRgbF(rgb_float_array))

color_selected(w, color, where) ==
    IF where = 1
    THEN update_lightcolor_boxes([w EXCEPT !.color_light = color], color)
    ELSE update_shadowcolor_boxes([w EXCEPT !.color_shadow = color], color)

\* giveme_light_color and giveme_shadow_color: [[red, green, blue], same],
\* `same` the toolkit's comparison of the colour read from the RGB boxes with
\* the one read from the HSV boxes; a box that holds no number is a ValueError
\* (mutant) the list built from the H, S and V boxes
giveme_color_from_hsv(boxes, same) ==
    IF \A i \in 1..6 : int(boxes[i]).ok
    THEN [ok |-> TRUE,
          value |-> <<[type |-> "list",
                       value |-> <<int(boxes[4]).value % 256, int(boxes[5]).value,
                                   int(boxes[6]).value>>],
                      [type |-> "bool", value |-> same]>>]
    ELSE [ok |-> FALSE, value |-> <<>>]

giveme_color(boxes, same) ==
    IF \A i \in 1..6 : int(boxes[i]).ok
    THEN [ok |-> TRUE,
          value |-> <<[type |-> "list",
                       value |-> <<red(QColor(int(boxes[1]).value, int(boxes[2]).value,
                                               int(boxes[3]).value)),
                                   green(QColor(int(boxes[1]).value, int(boxes[2]).value,
                                                 int(boxes[3]).value)),
                                   blue(QColor(int(boxes[1]).value, int(boxes[2]).value,
                                                int(boxes[3]).value))>>],
                      [type |-> "bool", value |-> same]>>]
    ELSE [ok |-> FALSE, value |-> <<>>]

giveme_light_color(w, same) ==
    giveme_color(<<w.r_textbox, w.g_textbox, w.b_textbox,
                   w.h_textbox, w.s_textbox, w.v_textbox>>, same)

giveme_shadow_color(w, same) ==
    giveme_color(<<w.rshadow_textbox, w.gshadow_textbox, w.bshadow_textbox,
                   w.hshadow_textbox, w.sshadow_textbox, w.vshadow_textbox>>, same)

render_layer_off(w) ==
    [w EXCEPT !.render_layer_array = {},
              !.render_layer_only = FALSE,
              !.renderlayer_button.text = ShowCurrentText,
              !.hidden = {}]

render_layer_on(w, layer_elements) ==
    [w EXCEPT !.render_layer_array = layer_elements,
              !.render_layer_only = TRUE,
              !.renderlayer_button.text = ShowAllText,
              !.hidden = {n \in Range(w.lightsArray) : n \notin layer_elements}]

\* (mutant) the render-layer buttons left enabled whatever the layer is
render_change_trigger_unlocked(w) ==
    render_layer_off([w EXCEPT !.renderlayer_button.enabled = TRUE,
                               !.renderlayer_add.enabled = TRUE,
                               !.renderlayer_remove.enabled = TRUE])

\* (mutant) the buttons set, the render-layer-only mode left as it is
render_change_trigger_keeps_mode(w) ==
    LET enabled == w.current_render_layer # DefaultLayer
    IN  [w EXCEPT !.renderlayer_button.enabled = enabled,
                  !.renderlayer_add.enabled = enabled,
                  !.renderlayer_remove.enabled = enabled]

render_change_trigger(w) ==
    LET enabled == w.current_render_layer # DefaultLayer
    IN  render_layer_off([w EXCEPT !.renderlayer_button.enabled = enabled,
                                   !.renderlayer_add.enabled = enabled,
                                   !.renderlayer_remove.enabled = enabled])

search_light(w, letters) ==
    IF w.render_layer_only
    THEN [w EXCEPT !.hidden =
            {n \in Range(w.lightsArray) :
                ~(find(n, letters) >= 0 /\ n \in w.render_layer_array)}]
    ELSE [w EXCEPT !.hidden = {n \in Range(w.lightsArray) : find(n, letters) < 0}]

\* keyReleaseEvent: a key released in the window, the search box holding `text`
keyReleaseEvent(w, text) == search_light([w EXCEPT !.searchlight_tbox = text], text)

(***************************************************************************)
(* Host calls of the controller (pymel.core, maya.OpenMaya)                *)
(***************************************************************************)
\* "except: raise E(...)": whatever the block raised leaves as E
Reraise(st, e) == IF st.exc # "none" THEN [st EXCEPT !.exc = e] ELSE st

\* pmc.select(item, add=True)
select_add(st, item) ==
    IF st.exc # "none" THEN st
    ELSE IF item \notin st.host.nodes THEN Raise(st, "MayaNodeError")
    ELSE IF item \in Range(st.host.selection)
    THEN [st EXCEPT !.log = Append(@, <<"select", item, "add">>)]
    ELSE [st EXCEPT !.host.selection = Append(@, item),
                    !.host.pending = @ \cup {"SelectionChanged"},
                    !.log = Append(@, <<"select", item, "add">>)]

\* pmc.select(item, deselect=True)
select_deselect(st, item) ==
    IF st.exc # "none" THEN st
    ELSE IF item \notin st.host.nodes THEN Raise(st, "MayaNodeError")
    ELSE IF item \notin Range(st.host.selection)
    THEN [st EXCEPT !.log = Append(@, <<"select", item, "deselect">>)]
    ELSE [st EXCEPT !.host.selection = SelectSeq(@, LAMBDA x : x # item),
                    !.host.pending = @ \cup {"SelectionChanged"},
                    !.log = Append(@, <<"select", item, "deselect">>)]

(***************************************************************************)
(* MayaSceneLights_mayaWindow.py: the closures of show() that the window's *)
(* list calls back                                                         *)
(***************************************************************************)
\* "if _window.latest_light_selected is not None: ... else: ..." at the end of
\* update_maya_selection and of update_list_selection
refresh_details(st) ==
    IF st.exc # "none" THEN st
    ELSE LET latest == st.win.latest_light_selected IN
         IF latest = None
         THEN [st EXCEPT !.win = update_intensity_label(@, None)]
         ELSE IF latest \notin st.host.nodes THEN Raise(st, "MayaAttributeError")
         ELSE [st EXCEPT !.win =
                 receive_mayashadow(
                     receive_mayacolor(
                         update_intensity_label(@, st.host.attr[latest]["intensity"]),
                         st.host.attr[latest]["color"]),
                     st.host.attr[latest]["shadowColor"])]

\* (mutant) the loop without its "if pmc.objExists(item)"
RECURSIVE selection_loop_unchecked(_, _)
selection_loop_unchecked(st, i) ==
    IF i > Len(st.win.lightsArray) \/ st.exc # "none" THEN st
    ELSE LET item == st.win.lightsArray[i]
             s1 == IF item \in st.win.selected
                   THEN select_add([st EXCEPT !.win.latest_light_selected = item], item)
                   ELSE select_deselect(st, item)
         IN  selection_loop_unchecked(Reraise(s1, "TypeError"), i + 1)

RECURSIVE selection_loop(_, _)
selection_loop(st, i) ==
    IF i > Len(st.win.lightsArray) \/ st.exc # "none" THEN st
    ELSE LET item == st.win.lightsArray[i]
             s1 == IF item \notin st.host.nodes THEN st          \* objExists
                   ELSE IF item \in st.win.selected
                   THEN select_add([st EXCEPT !.win.latest_light_selected = item], item)
                   ELSE select_deselect(st, item)
         IN  selection_loop(Reraise(s1, "TypeError"), i + 1)

update_maya_selection(st) ==
    IF st.exc # "none" THEN st
    ELSE LET s0 == [st EXCEPT !.win.latest_light_selected = None]
             s1 == undo_chunk_exit(selection_loop(undo_chunk_enter(s0), 1))
         IN  refresh_details(s1)

\* (mutant) a list whose selection signal reaches no handler
itemSelectionChanged_unheard(st) == st

\* the signal itemSelectionChanged, emitted by the list when its selection
\* changes: update_maya_selection runs if show() has connected it
itemSelectionChanged(st) ==
    IF st.win.connected THEN update_maya_selection(st) ELSE st

(***************************************************************************)
(* LightInterfaceWindow.populate_itemlist.  It runs the handler of the     *)
(* list's selection signal each time it changes the selection.             *)
(***************************************************************************)
\* self.latest_light_selected = item
SetLatest(st, item) ==
    IF st.exc # "none" THEN st ELSE [st EXCEPT !.win.latest_light_selected = item]

RECURSIVE populate_loop(_, _, _, _)
populate_loop(st, lights_array, selected_array, counter) ==
    IF counter > Len(lights_array) \/ st.exc # "none" THEN st
    ELSE LET item == lights_array[counter][1]
             s1 == [st EXCEPT !.win.lightsArray = Append(@, item)]
             s2 == IF item \in Range(selected_array)
                   THEN SetLatest(itemSelectionChanged(
                                      [s1 EXCEPT !.win.selected = @ \cup {item}]), item)
                   ELSE s1
         IN  populate_loop(s2, lights_array, selected_array, counter + 1)

\* (mutant) the rows of the previous list kept, the new ones added after them
populate_itemlist_keeps_rows(st, lights_array, selected_array) ==
    IF st.exc # "none" THEN st
    ELSE populate_loop(st, lights_array, selected_array, 1)

populate_itemlist(st, lights_array, selected_array) ==
    IF st.exc # "none" THEN st
    ELSE LET s1 == [st EXCEPT !.win.lightsArray = <<>>]
             \* widgetlist.clear(): the rows go, with their selection
             s2 == [s1 EXCEPT !.win.selected = {}, !.win.hidden = {}]
             s3 == IF st.win.selected # {} THEN itemSelectionChanged(s2) ELSE s2
         IN  populate_loop(s3, lights_array, selected_array, 1)

\* QListWidgetItem.setSelected(on): the signal is emitted when the row's
\* selection changes
setSelected(st, item, on) ==
    IF st.exc # "none" \/ (item \in st.win.selected) = on THEN st
    ELSE itemSelectionChanged(
             [st EXCEPT !.win.selected = IF on THEN @ \cup {item} ELSE @ \ {item}])

\* LightInterfaceWindow.update_list_selection(selected_array)
RECURSIVE list_selection_loop(_, _, _)
list_selection_loop(st, selected_array, i) ==
    IF i > Len(st.win.lightsArray) \/ st.exc # "none" THEN st
    ELSE LET item == st.win.lightsArray[i]
             s1 == IF item \in Range(selected_array)
                   THEN SetLatest(setSelected(st, item, TRUE), item)
                   ELSE setSelected(st, item, FALSE)
         IN  list_selection_loop(s1, selected_array, i + 1)

\* (mutant) the light stored is the last of selected_array
LightInterfaceWindow_update_list_selection_last_given(st, selected_array) ==
    IF st.exc # "none" THEN st
    ELSE Bind(list_selection_loop(st, selected_array, 1), LAMBDA s1 :
              SetLatest(s1, IF selected_array = <<>> THEN None
                            ELSE selected_array[Len(selected_array)]))

LightInterfaceWindow_update_list_selection(st, selected_array) ==
    IF st.exc # "none" THEN st
    ELSE list_selection_loop([st EXCEPT !.win.latest_light_selected = None],
                             selected_array, 1)

\* OpenMaya.MEventMessage.removeCallback(id): fails on an id that the host
\* does not hold (any more)
removeCallback(st, id) ==
    IF st.exc # "none" THEN st
    ELSE IF \E cb \in st.host.callbacks : cb.id = id
    THEN [st EXCEPT !.host.callbacks = {cb \in @ : cb.id # id},
                    !.log = Append(@, <<"removeCallback", id>>)]
    ELSE Raise([st EXCEPT !.log = Append(@, <<"removeCallback", id>>)], "RuntimeError")

\* the print statement
stdout(st, msg) ==
    IF st.exc # "none" THEN st ELSE [st EXCEPT !.log = Append(@, <<"print", msg>>)]

\* "try: <call>; print done  except: print failed"
TryPrinted(st, done, failed) ==
    IF st.exc = "none" THEN stdout(st, done)
    ELSE stdout([st EXCEPT !.exc = "none"], failed)

CallbackRemoved == "Callback removed"
CallbackNotLocated ==
    "Could not locate such a thing as a Maya API Callback. Closing anyway."

\* (mutant) the loop left at the first id that cannot be removed
RECURSIVE closeEvent_loop_stops(_, _)
closeEvent_loop_stops(st, i) ==
    IF i > Len(st.win.idCallback) \/ st.exc # "none" THEN [st EXCEPT !.exc = "none"]
    ELSE closeEvent_loop_stops(
             stdout(removeCallback(st, st.win.idCallback[i]), CallbackRemoved), i + 1)

\* "for id in self.idCallback: try: removeCallback(id) ... except: ..."
RECURSIVE closeEvent_loop(_, _)
closeEvent_loop(st, i) ==
    IF i > Len(st.win.idCallback) \/ st.exc # "none" THEN st
    ELSE closeEvent_loop(
             TryPrinted(removeCallback(st, st.win.idCallback[i]),
                        CallbackRemoved, CallbackNotLocated), i + 1)

\* event.accept(): the window closes
accept(st) ==
    IF st.exc # "none" THEN st
    ELSE [st EXCEPT !.win.visible = FALSE, !.log = Append(@, <<"accept">>)]

\* LightInterfaceWindow.closeEvent
closeEvent(st) == accept(closeEvent_loop(st, 1))

(***************************************************************************)
(* MayaSceneLights_mayaWindow.py: show() and its closures                  *)
(***************************************************************************)
WindowName == "lightInterfaceUI"

LightType(n) == IF n = lightA THEN "pointLight" ELSE "spotLight"

\* QListWidget.selectedItems(): the highlighted rows, in an order the
\* toolkit chooses (the selection model's, not the list's)
selectedItems(w) ==
    {items \in UNION {[1..k -> w.selected] : k \in {Cardinality(w.selected)}} :
        Distinct(items)}

get_selected_widgetitems_unfiltered(st, items) == items

get_selected_widgetitems(st, items) ==
    SelectSeq(items, LAMBDA item : item \in st.host.nodes)

update_window_fields(st, intensity, light_color, shadow_color) ==
    IF st.exc # "none" THEN st
    ELSE [st EXCEPT !.win = receive_mayashadow(
                                receive_mayacolor(
                                    update_intensity_label(@, intensity),
                                    light_color),
                                shadow_color)]

fill_itemlist(st) ==
    IF st.exc # "none" THEN st
    ELSE LET names == Sorted(st.host.nodes)
             current_lights == [i \in 1..Len(names) |-> <<names[i], LightType(names[i])>>]
             current_selection == st.host.selection
         IN  Bind(populate_itemlist(st, current_lights, current_selection), LAMBDA s1 :
             IF s1.exc # "none" \/ current_selection = <<>> THEN s1
             ELSE LET n == current_selection[Len(current_selection)]
                  IN  update_window_fields(s1, s1.host.attr[n]["intensity"],
                                           s1.host.attr[n]["color"],
                                           s1.host.attr[n]["shadowColor"]))

update_window_render_layer(st) ==
    IF st.exc # "none" THEN st
    ELSE [st EXCEPT !.win = render_change_trigger(
                                [@ EXCEPT !.current_render_layer = st.host.currentLayer])]

render_layer_changed(st) == update_window_render_layer(st)

\* pmc.editRenderLayerMembers(layer, lights) / (layer, lights, remove=True)
\* (mutant) the members of the layer replaced by the lights given
editRenderLayerMembers_replaces(st, layer, lights, remove) ==
    IF st.exc # "none" THEN st
    ELSE IF layer \notin Layers \/ "editRenderLayerMembers" \in st.refused
    THEN Raise(st, "RuntimeError")
    ELSE [st EXCEPT !.host.members[layer] = IF remove THEN {} ELSE Range(lights),
                    !.log = Append(@, <<"editRenderLayerMembers", layer, lights, remove>>)]

editRenderLayerMembers(st, layer, lights, remove) ==
    IF st.exc # "none" THEN st
    ELSE IF layer \notin Layers \/ "editRenderLayerMembers" \in st.refused
    THEN Raise(st, "RuntimeError")
    ELSE [st EXCEPT !.host.members[layer] =
                        IF remove THEN @ \ Range(lights) ELSE @ \cup Range(lights),
                    !.log = Append(@, <<"editRenderLayerMembers", layer, lights, remove>>)]

add_to_render_layer(st, items) ==
    Reraise(editRenderLayerMembers(st, st.win.current_render_layer,
                                   get_selected_widgetitems(st, items), FALSE),
            "RuntimeError")

remove_from_render_layer(st, items) ==
    Bind(editRenderLayerMembers(st, st.win.current_render_layer,
                                get_selected_widgetitems(st, items), TRUE), LAMBDA s1 :
        IF s1.exc = "RuntimeError"
        THEN warning([s1 EXCEPT !.exc = "none"],
                     "Cannot change members of the current Render Layer")
        ELSE s1)

\* pmc.editRenderLayerMembers(layer, query=True)
\* (mutant) every press turns the mode on
render_layer_only_always_on(st) ==
    IF st.exc # "none" THEN st
    ELSE [st EXCEPT !.win = render_layer_on(@, st.host.members[st.win.current_render_layer])]

render_layer_only(st) ==
    IF st.exc # "none" THEN st
    ELSE IF st.win.render_layer_only THEN [st EXCEPT !.win = render_layer_off(@)]
    ELSE IF st.win.current_render_layer \notin Layers THEN Raise(st, "RuntimeError")
    ELSE [st EXCEPT !.win = render_layer_on(@, st.host.members[st.win.current_render_layer])]

\* "_window.update_intensity_label(pmc.getAttr('%s.intensity' % ...))"
apply_intensity_label(st) ==
    LET latest == st.win.latest_light_selected
    IN  IF st.exc # "none" THEN st
        ELSE IF latest = None \/ latest \notin st.host.nodes
        THEN Raise(st, "MayaAttributeError")
        ELSE [st EXCEPT !.win = update_intensity_label(
                                    @, st.host.attr[latest]["intensity"])]

\* "except: pmc.warning(...); raise ValueError(...)"
apply_intensity_except(st) ==
    IF st.exc = "none" THEN st
    ELSE Raise(warning([st EXCEPT !.exc = "none"], "Not able to set intensity"),
               "ValueError")

\* (mutant) the engine called outside any undo chunk
apply_intensity_no_chunk(st, items) ==
    IF st.exc # "none" THEN st
    ELSE LET quantity == float(st.win.intensityquantity_textbox)
             s2 == IF ~quantity.ok THEN Raise(st, "ValueError")
                   ELSE change_intensity(st, quantity.value,
                                         st.win.intensityoperator_combo,
                                         get_selected_widgetitems(st, items),
                                         st.win.keyframeintensity_checkbox)
         IN  apply_intensity_except(apply_intensity_label(s2))

apply_intensity(st, items) ==
    IF st.exc # "none" THEN st
    ELSE LET s1 == undo_chunk_enter(st)
             quantity == float(st.win.intensityquantity_textbox)
             s2 == IF ~quantity.ok THEN Raise(s1, "ValueError")
                   ELSE change_intensity(s1, quantity.value,
                                         st.win.intensityoperator_combo,
                                         get_selected_widgetitems(s1, items),
                                         st.win.keyframeintensity_checkbox)
         IN  apply_intensity_except(apply_intensity_label(undo_chunk_exit(s2)))

\* "[value/255.00 for value in rgb_array]": a number, or a truth value, is
\* divided; the division of a list by a float is a TypeError
over_255(array) ==
    IF \E i \in 1..Len(array) : array[i].type \notin {"int", "bool"}
    THEN [ok |-> FALSE, value |-> <<>>]
    ELSE [ok |-> TRUE,
          value |-> [i \in 1..Len(array) |->
                       IF array[i].type = "bool"
                       THEN Rat(IF array[i].value THEN 1 ELSE 0, 255)
                       ELSE Rat(array[i].value, 255)]]

\* "try: applyChanges.change_color(...)  except RuntimeError: pmc.warning(msg)"
try_change_color(st, array, items, color_or_shadow, msg) ==
    Bind(IF ~array.ok THEN Raise(st, "ValueError")
         ELSE IF ~over_255(array.value).ok THEN Raise(st, "TypeError")
         ELSE change_color(st, over_255(array.value).value,
                           get_selected_widgetitems(st, items),
                           st.win.keyframecolor_checkbox, color_or_shadow),
         LAMBDA s1 : IF s1.exc = "RuntimeError"
                     THEN warning([s1 EXCEPT !.exc = "none"], msg)
                     ELSE s1)

apply_color_change(st, items, same) ==
    IF st.exc # "none" THEN st
    ELSE try_change_color(st, giveme_light_color(st.win, same), items, 1,
                          "Not able to set color. Please check Script Editor")

apply_shadow_change(st, items, same) ==
    IF st.exc # "none" THEN st
    ELSE try_change_color(st, giveme_shadow_color(st.win, same), items, 2,
                          "Not able to set light color.")

\* (mutant) the callback without its test of the active window
update_list_selection_always(st) ==
    IF st.exc # "none" THEN st
    ELSE refresh_details(
             LightInterfaceWindow_update_list_selection(st, st.host.selection))

update_list_selection(st) ==
    IF st.exc # "none" \/ st.win.active THEN st
    ELSE refresh_details(
             LightInterfaceWindow_update_list_selection(st, st.host.selection))

\* OpenMaya.MEventMessage.addEventCallback(event, fn), the id appended to
\* _window.idCallback
addEventCallback(st, event) ==
    IF st.exc # "none" THEN st
    ELSE IF event \in st.refused THEN Raise(st, "RuntimeError")
    ELSE [st EXCEPT !.host.callbacks =
                        @ \cup {[id |-> st.host.nextId, event |-> event,
                                 panel |-> st.win.panel]},
                    !.host.nextId = @ + 1,
                    !.win.idCallback = Append(@, st.host.nextId),
                    !.log = Append(@, <<"addEventCallback", event, st.host.nextId>>)]

\* show.time_changed
time_changed(st) ==
    IF st.exc # "none" \/ st.win.latest_light_selected = None THEN st
    ELSE refresh_details(st)


\* _window.idCallback[2]
idCallback_2(st) ==
    IF Len(st.win.idCallback) >= 3 THEN removeCallback(st, st.win.idCallback[3])
    ELSE Raise(st, "IndexError")

\* "except RuntimeError: print ..."
TryPrintedRuntimeError(st, done, failed) ==
    IF st.exc = "RuntimeError" THEN stdout([st EXCEPT !.exc = "none"], failed)
    ELSE stdout(st, done)

\* the "if ... else ..." of show.timelistener_trigger
timelistener_switch(st) ==
    IF st.win.timeline_listener
    THEN TryPrinted(addEventCallback(st, "timeChanged"), "Maya API timeChanged Callback added", "Could not initiate Maya API timeChanged Callback")
    ELSE TryPrintedRuntimeError(idCallback_2(st), "Stopped Maya API timeChanged Callback", "Couldn't find Maya API timeChanged Callback to stop")

\* show.timelistener_trigger, run when the checkbox has been clicked; it ends
\* with _window.render_change_trigger()
timelistener_trigger(st) ==
    IF st.exc # "none" THEN st
    ELSE Bind(timelistener_switch(st), LAMBDA s1 :
              IF s1.exc # "none" THEN s1
              ELSE [s1 EXCEPT !.win = render_change_trigger(@)])

\* pmc.deleteUI('lightInterfaceUI', wnd=True): the window object is destroyed;
\* no close event is delivered to it
deleteUI(st) ==
    IF st.exc # "none" THEN st
    ELSE [st EXCEPT !.host.ui = @ \ {CHOOSE p \in @ : TRUE},
                    !.win = NoWindow,
                    !.log = Append(@, <<"deleteUI", WindowName>>)]

show_delete_old(st) == IF st.host.ui # {} THEN deleteUI(st) ELSE st

\* pysideWindow.LightInterfaceWindow(parent=parentwindow)
construct(st) ==
    [st EXCEPT !.win = LightInterfaceWindow(st.host.nextPanel),
               !.host.ui = @ \cup {st.host.nextPanel},
               !.host.nextPanel = @ + 1]

\* _window.show()
window_show(st) == IF st.exc # "none" THEN st ELSE [st EXCEPT !.win.visible = TRUE]

\* "try: _window.idCallback.append(addEventCallback(event, fn))
\*  except RuntimeError: print ..."
register(st, event, failed) ==
    Bind(addEventCallback(st, event), LAMBDA s1 :
         IF s1.exc = "RuntimeError" THEN stdout([s1 EXCEPT !.exc = "none"], failed)
         ELSE s1)

show(st) ==
    LET s1 == construct(show_delete_old(st))
        s2 == register(register(s1, "SelectionChanged",
                                "Could not initiate SelectionChanged Maya API Callback"),
                       "renderLayerManagerChange",
                       "Could not initiate renderLayerManagerChange Maya API Callback")
        s3 == [s2 EXCEPT !.win.connected = TRUE]
    IN  window_show(fill_itemlist(update_window_render_layer(s3)))

(***************************************************************************)
(* The window on its own (as in main() of the window module): its public   *)
(* operations called with any argument, no handler connected.              *)
(***************************************************************************)
MaxWindowCalls == 3      \* operations per behaviour of SpecWindow

lightB == <<"l", "B">>
lightC == <<"l", "C">>

RowLists == {<< <<lightA, "pointLight">>, <<lightC, "spotLight">>, <<spotB, "spotLight">> >>,
             << <<spotB, "spotLight">>, <<lightA, "pointLight">> >>}
SelectedArrays == {<<>>, <<spotB, lightA>>}
SearchTexts == {<<>>, <<"l">>, <<"L">>, <<"B">>, <<"l", "A">>, <<"A", "l">>}
MemberSets == {{}, {lightA, lightB}, {lightA, lightB, spotB}}

InitWindow ==
    /\ host = InitHost(AllNames, 1, NoKeys, <<>>, DefaultLayer)
    /\ win = [LightInterfaceWindow(0) EXCEPT !.visible = TRUE]
    /\ log = <<>>
    /\ last = [op |-> "init", exc |-> "none"]
    /\ pre = host
    /\ calls = 0

WindowCall(st, op) ==
    /\ host' = st.host
    /\ win' = st.win
    /\ log' = st.log
    /\ last' = op
    /\ pre' = host
    /\ calls' = calls + 1

PopulateItemlistCall ==
    /\ calls < MaxWindowCalls
    /\ \E lights_array \in RowLists, selected_array \in SelectedArrays :
         WindowCall(populate_itemlist(Start(host, win), lights_array, selected_array),
                    [op |-> "populate_itemlist", lights_array |-> lights_array,
                     selected_array |-> selected_array, rows_before |-> win.lightsArray,
                     exc |-> "none"])

SearchLightCall ==
    /\ calls < MaxWindowCalls
    /\ \E text \in SearchTexts :
         WindowCall([Start(host, win) EXCEPT !.win = keyReleaseEvent(@, text)],
                    [op |-> "search_light", letters |-> text, exc |-> "none"])

RenderLayerOnCall ==
    /\ calls < MaxWindowCalls
    /\ \E layer_elements \in MemberSets :
         WindowCall([Start(host, win) EXCEPT !.win = render_layer_on(@, layer_elements)],
                    [op |-> "render_layer_on", layer_elements |-> layer_elements,
                     exc |-> "none"])

RenderLayerOffCall ==
    /\ calls < MaxWindowCalls
    /\ WindowCall([Start(host, win) EXCEPT !.win = render_layer_off(@)],
                  [op |-> "render_layer_off", exc |-> "none"])

\* render_change_trigger(), called after current_render_layer was assigned
RenderChangeTriggerCall ==
    /\ calls < MaxWindowCalls
    /\ \E layer \in Layers :
         WindowCall([Start(host, win) EXCEPT
                         !.win = render_change_trigger(
                                     [@ EXCEPT !.current_render_layer = layer])],
                    [op |-> "render_change_trigger", layer |-> layer, exc |-> "none"])

NextWindow ==
    \/ PopulateItemlistCall
    \/ SearchLightCall
    \/ RenderLayerOnCall
    \/ RenderLayerOffCall
    \/ RenderChangeTriggerCall

SpecWindow == InitWindow /\ [][NextWindow]_vars

Contains(text, s) ==
    \E i \in 0..(Len(text) - Len(s)) :
        \A j \in 1..Len(s) : text[i + j] = s[j]

Visible(n) == n \notin win.hidden

\* C5: after search_light(s), while render-layer-only mode is active a row is
\* visible iff its name contains s (case-sensitive substring) and is in the
\* cached render-layer membership; while the mode is off, iff it contains s.
C5_SearchComposesWithLayer ==
    last.op = "search_light"
    => \A n \in Range(win.lightsArray) :
         Visible(n) <=> /\ Contains(n, last.letters)
                        /\ win.render_layer_only => n \in win.render_layer_array

C5_Witness ==
    /\ last.op = "search_light"
    /\ last.letters = <<"l">>
    /\ win.render_layer_only
    /\ win.render_layer_array = {lightA, lightB, spotB}
    /\ win.lightsArray = <<lightA, lightC, spotB>>
    /\ win.hidden = {lightC, spotB}

\* C30: after any sequence of search_light, render_layer_on,
\* render_layer_off, render_change_trigger and populate_itemlist, a row of
\* the list is visible exactly when its name contains the text of the search
\* field and, while the render-layer-only mode is on, is in the cached
\* membership.
C30_VisibleIffSearchAndLayer ==
    \A n \in Range(win.lightsArray) :
        Visible(n) <=> /\ Contains(n, win.searchlight_tbox)
                       /\ win.render_layer_only => n \in win.render_layer_array

\* the last row of the list, in list order, whose name is in `names`
LastIn(rows, names) ==
    rows[CHOOSE i \in 1..Len(rows) :
            /\ rows[i] \in names
            /\ \A j \in (i + 1)..Len(rows) : rows[j] \notin names]

\* C24: after populate_itemlist(lights, selected) the tracked list of names
\* is the names of `lights` in the given order, no row of the previous list
\* being kept; a row is highlighted exactly when its name is in `selected`;
\* and when a name matches, the most recently selected light is the last
\* matching name in list order.
C24_PopulateItemlist ==
    last.op = "populate_itemlist"
    => /\ win.lightsArray = [i \in 1..Len(last.lights_array) |-> last.lights_array[i][1]]
       /\ win.selected = Range(win.lightsArray) \cap Range(last.selected_array)
       /\ win.hidden \subseteq Range(win.lightsArray)
       /\ win.selected # {}
             => win.latest_light_selected = LastIn(win.lightsArray, win.selected)

\* a list of three rows replaced by one of two, selected in another order
C24_Witness ==
    /\ last.op = "populate_itemlist"
    /\ last.rows_before = <<lightA, lightC, spotB>>
    /\ last.selected_array = <<spotB, lightA>>
    /\ win.lightsArray = <<spotB, lightA>>
    /\ win.selected = {spotB, lightA}
    /\ win.latest_light_selected = lightA

(***************************************************************************)
(* The two colours of the window: a colour picked in the dialog of a colour *)
(* frame, or received from the host as three floats.                       *)
(***************************************************************************)
MaxColorSteps == 2

\* what QColorDialog.getColor() returns: a colour, or the invalid colour when
\* the dialog is cancelled
DialogColors ==
    {QColor(255, 0, 0), QColor(10, 200, 30), QColor(128, 128, 128), QColor(0, 0, 0),
     QColor(200, 199, 255), InvalidColor}

\* what the host hands over as a colour: floats, some outside 0.0..1.0
FloatArrays ==
    {<<Rat(1, 1), Rat(1, 1), Rat(1, 1)>>, <<Rat(1, 2), Rat(1, 2), Rat(1, 2)>>,
     <<Rat(1, 3), Rat(2, 3), Rat(1, 7)>>, <<Rat(3, 2), Rat(0, 1), Rat(1, 4)>>,
     <<Rat(9, 10), Rat(1, 10), Rat(-1, 2)>>, <<Rat(1, 500), Rat(0, 1), Rat(1, 1)>>}

InitColor ==
    /\ host = InitHost(AllNames, 1, NoKeys, <<>>, DefaultLayer)
    /\ win = LightInterfaceWindow(1)
    /\ log = <<>>
    /\ last = [op |-> "__init__", exc |-> "none"]
    /\ pre = host
    /\ calls = 0

\* colorFrame.mousePressEvent: the colour of the dialog given to the window
ColorSelectedCall ==
    /\ calls < MaxColorSteps
    /\ \E color \in DialogColors, where \in {1, 2} :
         WindowCall(Start(host, color_selected(win, color, where)),
                    [op |-> "color_selected", color |-> color, where |-> where,
                     exc |-> "none"])

ReceiveMayacolorCall ==
    /\ calls < MaxColorSteps
    /\ \E rgb_float_array \in FloatArrays :
         WindowCall(Start(host, receive_mayacolor(win, rgb_float_array)),
                    [op |-> "receive_mayacolor", array |-> rgb_float_array,
                     exc |-> "none"])

ReceiveMayashadowCall ==
    /\ calls < MaxColorSteps
    /\ \E rgb_float_array \in FloatArrays :
         WindowCall(Start(host, receive_mayashadow(win, rgb_float_array)),
                    [op |-> "receive_mayashadow", array |-> rgb_float_array,
                     exc |-> "none"])

\* giveme_light_color(); `same` is what "rgb_value == hsv_value" gives
GivemeLightColorCall ==
    /\ calls < MaxColorSteps
    /\ \E same \in BOOLEAN :
         \E result \in {giveme_light_color(win, same)} :
             WindowCall(Start(host, win),
                        [op |-> "giveme_light_color", result |-> result, same |-> same,
                         exc |-> IF result.ok THEN "none" ELSE "ValueError"])

GivemeShadowColorCall ==
    /\ calls < MaxColorSteps
    /\ \E same \in BOOLEAN :
         \E result \in {giveme_shadow_color(win, same)} :
             WindowCall(Start(host, win),
                        [op |-> "giveme_shadow_color", result |-> result, same |-> same,
                         exc |-> IF result.ok THEN "none" ELSE "ValueError"])

NextColor ==
    \/ ColorSelectedCall
    \/ ReceiveMayacolorCall
    \/ ReceiveMayashadowCall
    \/ GivemeLightColorCall
    \/ GivemeShadowColorCall

SpecColor == InitColor /\ [][NextColor]_vars

\* The colour that a hue in degrees and a saturation and a value on 0..255
\* denote, its three channels on 0..255 as fractions over 15300 (255 * 60).
HsvDenotes(h, s, v) ==
    LET f == h % 60
        V == 15300 * v
        p == v * (15300 - 60 * s)
        q == v * (15300 - s * f)
        t == v * (15300 - s * (60 - f))
    IN  CASE (h \div 60) % 6 = 0 -> <<V, t, p>>
          [] (h \div 60) % 6 = 1 -> <<q, V, p>>
          [] (h \div 60) % 6 = 2 -> <<p, V, t>>
          [] (h \div 60) % 6 = 3 -> <<p, q, V>>
          [] (h \div 60) % 6 = 4 -> <<t, p, V>>
          [] OTHER -> <<V, p, q>>

\* the six boxes of a colour hold numbers; the RGB boxes are the channels of
\* the stored colour, which is the colour of the frame; the HSV boxes denote
\* the colour of the RGB boxes, each channel within 7 of 255 (what the
\* truncations of the hue to a degree and of the other numbers to 8 bits
\* can add up to)
MirrorsAgree(boxes, stored, frame) ==
    /\ \A i \in 1..6 : int(boxes[i]).ok
    /\ frame = stored
    /\ <<int(boxes[1]).value, int(boxes[2]).value, int(boxes[3]).value>>
           = <<red(stored), green(stored), blue(stored)>>
    /\ \A i \in 1..3 :
           Abs(HsvDenotes(int(boxes[4]).value, int(boxes[5]).value,
                          int(boxes[6]).value)[i] - 15300 * int(boxes[i]).value)
               <= 7 * 15300

LightBoxes == <<win.r_textbox, win.g_textbox, win.b_textbox,
                win.h_textbox, win.s_textbox, win.v_textbox>>
ShadowBoxes == <<win.rshadow_textbox, win.gshadow_textbox, win.bshadow_textbox,
                 win.hshadow_textbox, win.sshadow_textbox, win.vshadow_textbox>>

\* C17: after the construction of the window and after every update of a
\* colour, the RGB boxes and the HSV boxes of the light colour denote the same
\* colour up to rounding, which is the stored colour shown by its frame; the
\* same for the shadow colour.
C17_MirrorsAgree ==
    /\ MirrorsAgree(LightBoxes, win.color_light, win.color_frame)
    /\ MirrorsAgree(ShadowBoxes, win.color_shadow, win.colorshadow_frame)

\* a colour with a hue received from the host after another had been shown
C17_Witness ==
    /\ last.op = "receive_mayacolor"
    /\ last.array = <<Rat(1, 3), Rat(2, 3), Rat(1, 7)>>
    /\ calls = 2
    /\ LightBoxes = <<str(85), str(170), str(36), str(98), str(201), str(170)>>

\* C18: the hue box of the light colour and the hue box of the shadow colour
\* always hold a non-negative number: a colour without chroma, whose hue the
\* toolkit gives as -1, is shown with the hue "0".
C18_HueNonNegative ==
    /\ int(win.h_textbox).ok /\ int(win.h_textbox).value >= 0
    /\ int(win.hshadow_textbox).ok /\ int(win.hshadow_textbox).value >= 0
    /\ hue(win.color_light) = -1 => win.h_textbox = <<"0">>
    /\ hue(win.color_shadow) = -1 => win.hshadow_textbox = <<"0">>

\* a grey received from the host: the toolkit's hue is -1
C18_Witness ==
    /\ last.op = "receive_mayacolor"
    /\ last.array = <<Rat(1, 2), Rat(1, 2), Rat(1, 2)>>
    /\ hue(win.color_light) = -1
    /\ win.h_textbox = <<"0">>
    /\ win.v_textbox = <<"1", "2", "8">>

(***************************************************************************)
(* The panel inside the host: show() is called, the user works in the      *)
(* panel and in the host, the host delivers its events.                    *)
(***************************************************************************)
MaxPanelSteps == 4       \* operations per behaviour of SpecPanel

ApplyInputs ==
    {[text |-> <<"1", "0">>, operator |-> 0, keyframe |-> FALSE],
     [text |-> <<"2">>, operator |-> 3, keyframe |-> TRUE],
     [text |-> <<"-", ".", "2">>, operator |-> 2, keyframe |-> FALSE],
     [text |-> <<"1", "0", "x">>, operator |-> 0, keyframe |-> TRUE],
     [text |-> <<>>, operator |-> 1, keyframe |-> FALSE]}

InitPanel ==
    /\ host \in {InitHost(AllNames, 1, InitKeys, sel, layer) :
                    sel \in {<<>>, <<spotB, lightA>>}, layer \in Layers}
    /\ InitRest
    /\ calls = 0

\* the user's focus: in the panel, or in the host's own windows
Focus(w, inside) == IF w.live THEN [w EXCEPT !.active = inside] ELSE w

\* Every action of the panel takes the number of steps its specification
\* allows in a behaviour.
ShowCall(max) ==
    /\ calls < max
    /\ \E st \in {show(Start(host, win))} :
           WindowCall(st, [op |-> "show", after |-> last.op, exc |-> st.exc])

\* the user closes the window
CloseEventCall(max) ==
    /\ calls < max
    /\ win.live /\ win.visible
    /\ \E st \in {closeEvent(Start(host, win))} :
           WindowCall(st, [op |-> "closeEvent", exc |-> st.exc])

\* the user clicks the "listen to timeline" checkbox
TimelineListenerClick(max) ==
    /\ calls < max
    /\ win.live /\ win.visible
    /\ \E st \in {timelistener_trigger(
                     Start(host, [Focus(win, TRUE) EXCEPT
                                      !.timeline_listener = ~win.timeline_listener]))} :
           WindowCall(st, [op |-> "timelistener_trigger", exc |-> st.exc])

\* the user changes the highlighted rows
ListClick(max) ==
    /\ calls < max
    /\ win.live /\ win.visible
    /\ \E rows \in (SUBSET Range(win.lightsArray)) \ {win.selected} :
         \E st \in {itemSelectionChanged(
                       Start(host, [Focus(win, TRUE) EXCEPT !.selected = rows]))} :
             WindowCall(st, [op |-> "update_maya_selection", exc |-> st.exc])

ApplyIntensityCall(max) ==
    /\ calls < max
    /\ win.live /\ win.visible
    /\ \E input \in ApplyInputs, items \in selectedItems(win) :
         \E s0 \in {Start(host, [Focus(win, TRUE) EXCEPT
                                     !.intensityquantity_textbox = input.text,
                                     !.intensityoperator_combo = input.operator,
                                     !.keyframeintensity_checkbox = input.keyframe])} :
         \E st \in {apply_intensity(s0, items)} :
             WindowCall(st, [op |-> "apply_intensity", text |-> input.text,
                             keyframe |-> input.keyframe, items |-> items,
                             lights |-> get_selected_widgetitems(s0, items),
                             engine |-> st.engine, exc |-> st.exc])

\* the Update button
FillItemlistCall(max) ==
    /\ calls < max
    /\ win.live /\ win.visible
    /\ \E st \in {fill_itemlist(Start(host, Focus(win, TRUE)))} :
           WindowCall(st, [op |-> "fill_itemlist",
                           before |-> win.latest_light_selected, exc |-> st.exc])

\* the Apply buttons of the light colour and of the shadow colour
ApplyColorCall(max) ==
    /\ calls < max
    /\ win.live /\ win.visible
    /\ \E keyframe \in BOOLEAN, shadow_keyframe \in BOOLEAN, same \in BOOLEAN,
          items \in selectedItems(win) :
         \E s0 \in {Start(host, [Focus(win, TRUE) EXCEPT
                                     !.keyframecolor_checkbox = keyframe,
                                     !.keyframeshadow_checkbox = shadow_keyframe])} :
         \E st \in {apply_color_change(s0, items, same)} :
             WindowCall(st, [op |-> "apply_color_change", target |-> "color",
                             keyframe |-> keyframe, shadow_keyframe |-> shadow_keyframe,
                             items |-> items,
                             lights |-> get_selected_widgetitems(s0, items),
                             engine |-> st.engine, exc |-> st.exc])

ApplyShadowCall(max) ==
    /\ calls < max
    /\ win.live /\ win.visible
    /\ \E keyframe \in BOOLEAN, shadow_keyframe \in BOOLEAN, same \in BOOLEAN,
          items \in selectedItems(win) :
         \E s0 \in {Start(host, [Focus(win, TRUE) EXCEPT
                                     !.keyframecolor_checkbox = keyframe,
                                     !.keyframeshadow_checkbox = shadow_keyframe])} :
         \E st \in {apply_shadow_change(s0, items, same)} :
             WindowCall(st, [op |-> "apply_shadow_change", target |-> "shadowColor",
                             keyframe |-> keyframe, shadow_keyframe |-> shadow_keyframe,
                             items |-> items,
                             lights |-> get_selected_widgetitems(s0, items),
                             engine |-> st.engine, exc |-> st.exc])

\* The two buttons that edit the members of the layer; `refusals` says
\* whether the host may refuse the edit ({{}} when it never does).
AddToRenderLayerCall(max, refusals) ==
    /\ calls < max
    /\ win.live /\ win.visible /\ win.renderlayer_add.enabled
    /\ \E items \in selectedItems(win), refused \in refusals :
         \E s0 \in {[Start(host, Focus(win, TRUE)) EXCEPT !.refused = refused]} :
         \E st \in {add_to_render_layer(s0, items)} :
             WindowCall(st, [op |-> "add_to_render_layer",
                             lights |-> get_selected_widgetitems(s0, items),
                             refused |-> refused, exc |-> st.exc])

RemoveFromRenderLayerCall(max, refusals) ==
    /\ calls < max
    /\ win.live /\ win.visible /\ win.renderlayer_remove.enabled
    /\ \E items \in selectedItems(win), refused \in refusals :
         \E s0 \in {[Start(host, Focus(win, TRUE)) EXCEPT !.refused = refused]} :
         \E st \in {remove_from_render_layer(s0, items)} :
             WindowCall(st, [op |-> "remove_from_render_layer",
                             lights |-> get_selected_widgetitems(s0, items),
                             refused |-> refused, exc |-> st.exc])

RenderLayerOnlyCall(max) ==
    /\ calls < max
    /\ win.live /\ win.visible /\ win.renderlayer_button.enabled
    /\ \E st \in {render_layer_only(Start(host, Focus(win, TRUE)))} :
           WindowCall(st, [op |-> "render_layer_only", before |-> win, exc |-> st.exc])

\* the user deletes a light in the host
HostDelete(max) ==
    /\ calls < max
    /\ \E n \in host.nodes :
         LET h == [host EXCEPT !.nodes = @ \ {n},
                               !.selection = SelectSeq(@, LAMBDA x : x # n),
                               !.members = [y \in Layers |-> @[y] \ {n}],
                               !.pending = IF n \in Range(host.selection)
                                           THEN @ \cup {"SelectionChanged"} ELSE @]
         IN  WindowCall(Start(h, Focus(win, FALSE)),
                        [op |-> "delete", node |-> n, exc |-> "none"])

\* the user clears the selection in the host
HostDeselect(max) ==
    /\ calls < max
    /\ host.selection # <<>>
    /\ LET h == [host EXCEPT !.selection = <<>>,
                             !.pending = @ \cup {"SelectionChanged"}]
       IN  WindowCall(Start(h, Focus(win, FALSE)),
                      [op |-> "select", clear |-> TRUE, exc |-> "none"])

\* the user makes another render layer the current one
HostSetLayer(max) ==
    /\ calls < max
    /\ \E layer \in Layers \ {host.currentLayer} :
         LET h == [host EXCEPT !.currentLayer = layer,
                               !.pending = @ \cup {"renderLayerManagerChange"}]
         IN  WindowCall(Start(h, Focus(win, FALSE)),
                        [op |-> "setCurrentLayer", layer |-> layer, exc |-> "none"])

\* The host runs the callbacks registered for an event, in the order of their
\* registration.  A callback whose window has been destroyed fails on its
\* first call into the toolkit; the host reports the error and goes on.
\* an exception that leaves a callback is reported by the host
Reported(st, id) ==
    IF st.exc = "none" THEN st
    ELSE [st EXCEPT !.exc = "none", !.log = Append(@, <<"callbackError", id>>)]

RECURSIVE run_callbacks(_, _, _)
run_callbacks(st, event, id) ==
    IF id >= st.host.nextId THEN st
    ELSE LET here == {cb \in st.host.callbacks : cb.id = id /\ cb.event = event}
             mine == st.win.live /\ \E cb \in here : cb.panel = st.win.panel
             s1 == IF here = {} THEN st
                   ELSE IF ~mine
                   THEN [st EXCEPT !.log = Append(@, <<"callbackError", id>>)]
                   ELSE Reported(IF event = "SelectionChanged"
                                 THEN update_list_selection(st)
                                 ELSE IF event = "timeChanged"
                                 THEN time_changed(st)
                                 ELSE render_layer_changed(st), id)
         IN  run_callbacks(s1, event, id + 1)

HandlerOf(event) ==
    IF event = "SelectionChanged" THEN "update_list_selection"
    ELSE IF event = "timeChanged" THEN "time_changed"
    ELSE "render_layer_changed"

DeliverEvent(max) ==
    /\ calls < max
    /\ \E event \in host.pending :
         \E st \in {run_callbacks(
                       Start([host EXCEPT !.pending = @ \ {event}], win), event, 1)} :
             WindowCall(st,
                 [op |-> HandlerOf(event),
                  processed |-> /\ win.live
                                /\ \E cb \in host.callbacks :
                                       cb.event = event /\ cb.panel = win.panel,
                  errors |-> Cardinality({i \in 1..Len(st.log) :
                                            st.log[i][1] = "callbackError"}),
                  active |-> win.live /\ win.active,
                  before |-> win,
                  exc |-> "none"])

NextPanel ==
    \/ ShowCall(MaxPanelSteps)
    \/ CloseEventCall(MaxPanelSteps)
    \/ ListClick(MaxPanelSteps)
    \/ ApplyIntensityCall(MaxPanelSteps)
    \/ AddToRenderLayerCall(MaxPanelSteps, {{}})
    \/ RemoveFromRenderLayerCall(MaxPanelSteps, {{}})
    \/ RenderLayerOnlyCall(MaxPanelSteps)
    \/ HostDelete(MaxPanelSteps)
    \/ HostSetLayer(MaxPanelSteps)
    \/ DeliverEvent(MaxPanelSteps)

SpecPanel == InitPanel /\ [][NextPanel]_vars

(***************************************************************************)
(* The panel's host callbacks: show, the timeline checkbox, the timeline,  *)
(* close                                                                   *)
(***************************************************************************)
MaxListenerSteps == 5

\* the user moves the current time
HostSetTime(max) ==
    /\ calls < max
    /\ \E t \in Frames \ {host.time} :
         LET h == [host EXCEPT !.time = t, !.pending = @ \cup {"timeChanged"}]
         IN  WindowCall(Start(h, Focus(win, FALSE)),
                        [op |-> "currentTime", time |-> t, exc |-> "none"])

NextListener ==
    \/ ShowCall(MaxListenerSteps)
    \/ CloseEventCall(MaxListenerSteps)
    \/ TimelineListenerClick(MaxListenerSteps)
    \/ HostSetTime(MaxListenerSteps)
    \/ DeliverEvent(MaxListenerSteps)

SpecListener == InitPanel /\ [][NextListener]_vars

(***************************************************************************)
(* Properties of the panel inside the host (under SpecPanel)               *)
(***************************************************************************)
Registered(event) == {cb \in host.callbacks : cb.event = event}

\* C6: after show() is invoked twice in succession there is exactly one live
\* panel, and the host holds one selection-changed and one render-layer-changed
\* callback, both registered by that panel: none of the first panel's handles
\* is still registered.
C6_SingleCallbackSet ==
    (last.op = "show" /\ last.after = "show")
    => /\ host.ui = {win.panel}
       /\ win.live
       /\ Cardinality(Registered("SelectionChanged")) = 1
       /\ Cardinality(Registered("renderLayerManagerChange")) = 1
       /\ \A cb \in host.callbacks : cb.panel = win.panel

Resolves(n) == n \in host.nodes

Position(s, e) == CHOOSE i \in 1..Len(s) : s[i] = e

\* the lights the engine set, in the order it set them
RECURSIVE AppliedLights(_)
AppliedLights(l) ==
    IF l = <<>> THEN <<>>
    ELSE IF Head(l)[1] = "setAttr" THEN <<Head(l)[2]>> \o AppliedLights(Tail(l))
    ELSE AppliedLights(Tail(l))

NonNumericTexts == {<<>>, <<"1", "0", "x">>}

Unlocked == host.currentLayer # DefaultLayer

\* C8: after show() and after every processed render-layer-changed event the
\* toggle, add and remove buttons are all disabled if the host's current
\* render layer is defaultRenderLayer and all enabled otherwise; the add and
\* remove handlers never edit the members of defaultRenderLayer.
C8_DefaultLayerLock ==
    /\ (last.op = "show" \/ (last.op = "render_layer_changed" /\ last.processed))
       => /\ win.renderlayer_button.enabled = Unlocked
          /\ win.renderlayer_add.enabled = Unlocked
          /\ win.renderlayer_remove.enabled = Unlocked
    /\ last.op \in {"add_to_render_layer", "remove_from_render_layer"}
       => /\ host.members[DefaultLayer] = pre.members[DefaultLayer]
          /\ \A i \in 1..Len(log) :
               log[i][1] = "editRenderLayerMembers" => log[i][2] # DefaultLayer

C8_Witness ==
    /\ last.op = "render_layer_changed"
    /\ last.processed
    /\ pre.currentLayer = DefaultLayer
    /\ pre.pending = {"renderLayerManagerChange"}
    /\ ~Unlocked
    /\ ~win.renderlayer_button.enabled
    /\ ~win.renderlayer_add.enabled
    /\ ~win.renderlayer_remove.enabled

\* C9: apply_intensity with a non-numeric text in the intensity field changes
\* no attribute and no keyframe of any light, issues the warning 'Not able to
\* set intensity', and never calls change_intensity.
C9_NonNumericNoChange ==
    (last.op = "apply_intensity" /\ last.text \in NonNumericTexts)
    => /\ host.attr = pre.attr
       /\ host.keys = pre.keys
       /\ last.engine = 0
       /\ log = << <<"openChunk">>, <<"closeChunk">>,
                   <<"warning", "Not able to set intensity">> >>

C9_Witness ==
    /\ last.op = "apply_intensity"
    /\ last.text = <<"1", "0", "x">>
    /\ last.keyframe
    /\ last.lights = <<spotB, lightA>>
    /\ host.attr = pre.attr
    /\ host.keys = pre.keys

(***************************************************************************)
(* The buttons that change the document: the panel shown, rows highlighted, *)
(* lights deleted in the host, and one of the buttons pressed.             *)
(***************************************************************************)
MaxApplySteps == 3

NextApply ==
    \/ ShowCall(MaxApplySteps)
    \/ ListClick(MaxApplySteps)
    \/ HostDelete(MaxApplySteps)
    \/ HostDeselect(MaxApplySteps)
    \/ FillItemlistCall(MaxApplySteps)
    \/ ApplyIntensityCall(MaxApplySteps)
    \/ ApplyColorCall(MaxApplySteps)
    \/ ApplyShadowCall(MaxApplySteps)
    \/ AddToRenderLayerCall(MaxApplySteps, {{}})
    \/ RemoveFromRenderLayerCall(MaxApplySteps, {{}})

SpecApply == InitPanel /\ [][NextApply]_vars

\* the colour shown by a colour frame, as the three floats of the host
FrameColor(frame) == <<Rat(red(frame), 255), Rat(green(frame), 255), Rat(blue(frame), 255)>>

\* C14: Apply of the light colour, or of the shadow colour, with at least one
\* highlighted light that exists, ends normally and leaves the colour attribute
\* (color, respectively shadowColor) of each of these lights at the colour of
\* the frame, each channel divided by 255.
C14_ApplySetsColor ==
    (last.op \in {"apply_color_change", "apply_shadow_change"} /\ last.lights # <<>>)
    => /\ last.exc = "none"
       /\ \A i \in 1..Len(last.lights) :
              host.attr[last.lights[i]][last.target] =
                  FrameColor(IF last.target = "color" THEN win.color_frame
                             ELSE win.colorshadow_frame)

Mutations == {"setAttr", "cutKey", "setKeyframe"}

\* the undo chunks open just before the i-th host call of the last handler
OpenBefore(i) ==
    Cardinality({j \in 1..(i - 1) : log[j] = <<"openChunk">>})
        - Cardinality({j \in 1..(i - 1) : log[j] = <<"closeChunk">>})

ButtonHandlers ==
    {"apply_intensity", "apply_color_change", "apply_shadow_change",
     "add_to_render_layer", "remove_from_render_layer"}

\* C16: no exception leaves the handlers of the three Apply buttons, of Add
\* and of Remove: whatever fails inside them ends as a warning.
C16_NoExceptionEscapes ==
    last.op \in ButtonHandlers => last.exc = "none"

(***************************************************************************)
(* Properties of the panel's host callbacks (under SpecListener)           *)
(***************************************************************************)
Attempted(id) == \E j \in 1..Len(log) : log[j] = <<"removeCallback", id>>

\* C12: closing the panel attempts to unregister every handle of its callback
\* registry, a failure on one handle not preventing the attempts on the rest;
\* the close is accepted, no exception leaves the handler, and afterwards the
\* host holds no callback registered by this panel.
C12_CloseUnregistersAll ==
    last.op = "closeEvent"
    => /\ \A i \in 1..Len(win.idCallback) : Attempted(win.idCallback[i])
       /\ last.exc = "none"
       /\ log[Len(log)] = <<"accept">>
       /\ ~win.visible
       /\ \A cb \in host.callbacks : cb.panel # win.panel

\* a close where a handle that could not be removed is followed by one that is
C12_Witness ==
    /\ last.op = "closeEvent"
    /\ \E i, j \in 1..Len(log) :
           /\ i < j
           /\ log[i] = <<"print", CallbackNotLocated>>
           /\ log[j] = <<"print", CallbackRemoved>>

TimeCallbacks ==
    {cb \in host.callbacks : cb.event = "timeChanged" /\ cb.panel = win.panel}

\* C13: after every click on the "listen to timeline" checkbox the panel has
\* an active time-changed callback exactly when the checkbox is checked, and
\* never more than one.
C13_ListenerMatchesCheckbox ==
    (win.live /\ last.op = "timelistener_trigger")
    => /\ Cardinality(TimeCallbacks) <= 1
       /\ (TimeCallbacks # {}) <=> win.timeline_listener

(***************************************************************************)
(* The context managers around a body that may raise: a call of the engine *)
(* with a stale light name or an operator outside the table.               *)
(***************************************************************************)
MaxScopes == 1           \* scoped operations per behaviour of SpecUndo

BodyOperators == {1, 4}

UndoChunkScope ==
    /\ calls < MaxScopes
    /\ \E operator \in BodyOperators, lights \in LightLists, keyframe \in BOOLEAN :
         LET s0 == undo_chunk_enter(Start(host, win))
             s1 == change_intensity(s0, Rat(10, 1), operator, lights, keyframe)
             s2 == undo_chunk_exit(s1)
         IN  /\ host' = s2.host
             /\ log' = s2.log
             /\ last' = [op |-> "undo_chunk", operator |-> operator, lights |-> lights,
                         keyframe |-> keyframe, bodyExc |-> s1.exc, exc |-> s2.exc]
    /\ pre' = host
    /\ calls' = calls + 1
    /\ UNCHANGED win

UndoOnErrorScope ==
    /\ calls < MaxScopes
    /\ \E operator \in BodyOperators, lights \in LightLists, keyframe \in BOOLEAN :
         LET s0 == undo_on_error_enter(Start(host, win))
             s1 == change_intensity(s0, Rat(10, 1), operator, lights, keyframe)
             s2 == undo_on_error_exit(s1)
         IN  /\ host' = s2.host
             /\ log' = s2.log
             /\ last' = [op |-> "undo_on_error", operator |-> operator, lights |-> lights,
                         keyframe |-> keyframe, bodyExc |-> s1.exc, exc |-> s2.exc]
    /\ pre' = host
    /\ calls' = calls + 1
    /\ UNCHANGED win

NextUndo == UndoChunkScope \/ UndoOnErrorScope

SpecUndo == InitEngine /\ [][NextUndo]_vars

Count(s, e) == Cardinality({i \in 1..Len(s) : s[i] = e})

C22_ExceptionPassesThrough ==
    (last.op = "undo_chunk" /\ last.bodyExc # "none")
    => /\ last.exc = last.bodyExc
       /\ log[Len(log)] = <<"closeChunk">>
       /\ Count(log, <<"undo">>) = 0
       /\ host.undoLast # <<>>

\* the body raised KeyError (an operator outside the table)
C22_Witness ==
    /\ last.op = "undo_chunk"
    /\ last.operator = 4
    /\ last.bodyExc = "KeyError"
    /\ last.exc = "KeyError"
    /\ log = << <<"openChunk">>, <<"closeChunk">> >>

\* C15: a change of intensity over n lights inside undo_chunk, as Apply runs
\* it, either completes every write or leaves the document as it was: when the
\* step of a light raises, the lights before it do not keep their new values.
C15_AllOrNothing ==
    (last.op = "undo_chunk" /\ last.bodyExc # "none")
    => /\ host.attr = pre.attr
       /\ host.keys = pre.keys
    /\ host.undoOpen = 0

\* C11: undo_on_error issues exactly one host undo when its body raised and
\* none when the body ended normally; the undo comes after the chunk has been
\* closed, as the last host call of the scope, and the body's exception is
\* the one that leaves the scope.
C11_UndoOnlyOnError ==
    last.op = "undo_on_error"
    => /\ Count(log, <<"undo">>) = (IF last.bodyExc # "none" THEN 1 ELSE 0)
       /\ last.exc = last.bodyExc
       /\ last.bodyExc # "none"
            => /\ Len(log) >= 3
               /\ log[Len(log)] = <<"undo">>
               /\ log[Len(log) - 1] = <<"closeChunk">>

C11_Witness ==
    /\ last.op = "undo_on_error"
    /\ last.bodyExc = "MayaNodeError"
    /\ last.exc = "MayaNodeError"
    /\ \E i \in 1..Len(log) : log[i][1] = "setAttr"
    /\ log[Len(log)] = <<"undo">>
    /\ host.attr = pre.attr

(***************************************************************************)
(* Properties of the Attribute-Change Engine (under SpecEngine)            *)
(***************************************************************************)
EngineOps == {"change_intensity", "change_color"}

\* C1: change_intensity over a non-empty list of distinct resolvable lights
\* leaves each listed light's intensity at quantity (operator 0), x + quantity
\* (1), x * quantity (2), x + x * quantity / 100 (3), x being its intensity
\* before the call, with and without keyframe; for quantity 10 and x = 5 that
\* is 10, 15, 50 and 5.5.
C1_IntensityOperators ==
    (/\ last.op = "change_intensity"
     /\ last.lights # <<>>
     /\ Distinct(last.lights)
     /\ Range(last.lights) \subseteq pre.nodes
     /\ last.operator \in 0..3)
    => /\ last.exc = "none"
       /\ \A i \in 1..Len(last.lights) :
            LET l == last.lights[i]
                x == pre.attr[l].intensity
                v == host.attr[l].intensity
                q == last.quantity
                o == last.operator
            IN  /\ o = 0 => v = q
                /\ o = 1 => v = RAdd(x, q)
                /\ o = 2 => v = RMul(x, q)
                /\ o = 3 => v = RMul(x, RDiv(RAdd(Rat(100, 1), q), Rat(100, 1)))
                /\ (x = <<5, 1>> /\ q = <<10, 1>>) =>
                      v = CASE o = 0 -> <<10, 1>> [] o = 1 -> <<15, 1>>
                            [] o = 2 -> <<50, 1>> [] o = 3 -> <<11, 2>>

C1_Witness ==
    /\ last.op = "change_intensity"
    /\ last.lights = <<spotB, lightA>>
    /\ last.operator = 3
    /\ last.quantity = <<10, 1>>
    /\ last.keyframe = TRUE
    /\ pre.attr[lightA].intensity = <<5, 1>>
    /\ host.attr[lightA].intensity = <<11, 2>>
    /\ host.attr[spotB].intensity = <<11, 20>>

\* C2: change_intensity or change_color with an empty light list changes
\* nothing in the host document and emits exactly one warning, whatever the
\* operator, quantity, colour, keyframe flag and colour target, out-of-range
\* values included.
C2_EmptyListNoOp ==
    (last.op \in EngineOps /\ last.lights = <<>>)
    => /\ host = pre
       /\ log = << <<"warning", SelectWarning>> >>
       /\ last.exc = "none"

C2_Witness ==
    /\ last.op = "change_color"
    /\ last.lights = <<>>
    /\ last.color_or_shadow \notin {1, 2}
    /\ last.keyframe = TRUE
    /\ Len(log) = 1

ColorAttr(target) == IF target = 1 THEN "color" ELSE "shadowColor"
ColorChannels(target) ==
    IF target = 1 THEN {"colorR", "colorG", "colorB"}
    ELSE {"shadColorR", "shadColorG", "shadColorB"}

\* C3: change_color with target 1 writes only the attribute color and the
\* channels colorR/G/B of the listed lights, with target 2 only shadowColor
\* and shadColorR/G/B; the other family, the intensity and the lights that
\* are not listed are unchanged.
C3_ColorChannelMapping ==
    (last.op = "change_color" /\ last.color_or_shadow \in {1, 2})
    => LET a == ColorAttr(last.color_or_shadow)
           chans == ColorChannels(last.color_or_shadow)
       IN  /\ \A n \in AllNames :
                /\ \A b \in {"intensity", "color", "shadowColor"} \ {a} :
                      host.attr[n][b] = pre.attr[n][b]
                /\ \A c \in Channels \ chans : host.keys[n][c] = pre.keys[n][c]
                /\ n \notin Range(last.lights) =>
                      host.attr[n] = pre.attr[n] /\ host.keys[n] = pre.keys[n]
           /\ \A i \in 1..Len(log) :
                \/ log[i] = <<"warning", SelectWarning>>
                \/ /\ log[i][1] = "setAttr"
                   /\ log[i][2] \in Range(last.lights)
                   /\ log[i][3] = a
                \/ /\ log[i][1] \in {"cutKey", "setKeyframe"}
                   /\ log[i][2] \in Range(last.lights)
                   /\ log[i][3] \in chans
           /\ host.nodes = pre.nodes
           /\ host.time = pre.time

C3_Witness ==
    /\ last.op = "change_color"
    /\ last.color_or_shadow = 2
    /\ last.keyframe = TRUE
    /\ last.lights = <<lightA>>
    /\ last.exc = "none"
    /\ host.attr[lightA].shadowColor # pre.attr[lightA].shadowColor
    /\ host.keys[lightA]["shadColorR"] # pre.keys[lightA]["shadColorR"]
    /\ host.keys[lightA]["colorR"] = pre.keys[lightA]["colorR"]

\* the channels an operation keys, and the value it computed for a channel
TargetChannels ==
    IF last.op = "change_intensity" THEN {"intensity"}
    ELSE ColorChannels(last.color_or_shadow)

NewValue(l, c) ==
    IF last.op = "change_intensity" THEN host.attr[l].intensity
    ELSE last.color_value[CHOOSE i \in 1..3 : c \in {"color" \o rgb_array[i],
                                                      "shadColor" \o rgb_array[i]}]

\* C4: with keyframe = true and a key already at the current frame on the
\* target channel of a listed light, the operation leaves exactly one key at
\* that frame on that channel, with the newly computed value; the old key is
\* cut before the new one is set and the keys at other frames are untouched.
C4_KeyframeReplaces ==
    (last.op \in EngineOps /\ last.keyframe = TRUE /\ last.exc = "none"
        /\ last.lights # <<>>)
    => /\ \A l \in Range(last.lights), c \in TargetChannels :
            (\E k \in pre.keys[l][c] : k[1] = pre.time)
            => /\ {k \in host.keys[l][c] : k[1] = pre.time}
                     = {<<pre.time, NewValue(l, c)>>}
               /\ {k \in host.keys[l][c] : k[1] # pre.time}
                     = {k \in pre.keys[l][c] : k[1] # pre.time}
       /\ \A i \in 1..Len(log) :
            log[i][1] = "setKeyframe"
            => /\ i > 1
               /\ log[i - 1] = <<"cutKey", log[i][2], log[i][3], log[i][4], log[i][4]>>

C4_Witness ==
    /\ last.op = "change_intensity"
    /\ last.keyframe = TRUE
    /\ last.exc = "none"
    /\ last.lights = <<lightA>>
    /\ pre.time = 1
    /\ pre.keys[lightA]["intensity"] = {<<1, <<2, 1>>>>, <<2, <<3, 1>>>>}
    /\ host.keys[lightA]["intensity"] = {<<1, <<15, 1>>>>, <<2, <<3, 1>>>>}

\* C21: change_color with keyframe = true over a list of distinct lights of
\* the scene keys every light of the list, not only the last: each has a key
\* at the current frame on <prefix>R, <prefix>G and <prefix>B with the
\* matching component of color_value, three setKeyframe calls of its own, and
\* its keys are set before its colour attribute is written.
C21_EachLightKeyed ==
    (/\ last.op = "change_color"
     /\ last.keyframe = TRUE
     /\ last.color_or_shadow \in {1, 2}
     /\ last.lights # <<>>
     /\ Distinct(last.lights)
     /\ Range(last.lights) \subseteq pre.nodes)
    => /\ last.exc = "none"
       /\ \A l \in Range(last.lights) :
            /\ \A c \in ColorChannels(last.color_or_shadow) :
                  <<pre.time, NewValue(l, c)>> \in host.keys[l][c]
            /\ Cardinality({i \in 1..Len(log) :
                               log[i][1] = "setKeyframe" /\ log[i][2] = l}) = 3
            /\ \A i, j \in 1..Len(log) :
                  (/\ log[i][1] = "setKeyframe" /\ log[i][2] = l
                   /\ log[j][1] = "setAttr" /\ log[j][2] = l)
                  => i < j

\* two lights keyed on the shadow colour; the first of the list has its keys
C21_Witness ==
    /\ last.op = "change_color"
    /\ last.keyframe = TRUE
    /\ last.color_or_shadow = 2
    /\ last.lights = <<spotB, lightA>>
    /\ last.color_value = <<Rat(1, 1), Rat(0, 1), Rat(1, 2)>>
    /\ pre.time = 2
    /\ <<2, Rat(1, 2)>> \in host.keys[spotB]["shadColorB"]
    /\ <<2, Rat(1, 2)>> \in host.keys[lightA]["shadColorB"]
    /\ host.attr[spotB].shadowColor = last.color_value

\* C23: with keyframe = false, change_intensity and change_color cut no key
\* and set no key: the animation keys of the document are after the call what
\* they were before it, and nothing changes but the attribute values of the
\* listed lights (the intensity, or the colour attribute of the target).
C23_NoKeyTouched ==
    (last.op \in EngineOps /\ last.keyframe = FALSE)
    => /\ host.keys = pre.keys
       /\ \A i \in 1..Len(log) : log[i][1] \in {"setAttr", "warning"}
       /\ [host EXCEPT !.attr = pre.attr] = pre
       /\ \A n \in AllNames \ Range(last.lights) : host.attr[n] = pre.attr[n]
       /\ \A n \in AllNames, a \in {"intensity", "color", "shadowColor"} :
            host.attr[n][a] # pre.attr[n][a]
            => a = (IF last.op = "change_intensity" THEN "intensity"
                    ELSE ColorAttr(last.color_or_shadow))

\* the intensity of two lights changed at a frame where both have a key
C23_Witness ==
    /\ last.op = "change_intensity"
    /\ last.keyframe = FALSE
    /\ last.lights = <<lightA, spotB>>
    /\ last.exc = "none"
    /\ \E k \in pre.keys[lightA]["intensity"] : k[1] = pre.time
    /\ host.attr[lightA].intensity # pre.attr[lightA].intensity
    /\ host.attr[spotB].intensity # pre.attr[spotB].intensity
    /\ host.keys = pre.keys

(***************************************************************************)
(* The selection, kept the same in the list and in the host: the user      *)
(* selects in the list or in the host, deletes lights, and the host        *)
(* delivers its events                                                     *)
(***************************************************************************)
MaxSelectionSteps == 4

HostSelections == {<<>>, <<lightA>>, <<spotB>>, <<spotB, lightA>>}

\* the user selects lights in the host
HostSelect(max) ==
    /\ calls < max
    /\ \E sel \in HostSelections \ {host.selection} :
         /\ Range(sel) \subseteq host.nodes
         /\ LET h == [host EXCEPT !.selection = sel,
                                  !.pending = @ \cup {"SelectionChanged"}]
            IN  WindowCall(Start(h, Focus(win, FALSE)),
                           [op |-> "select", replace |-> sel, exc |-> "none"])

NextSelection ==
    \/ ShowCall(MaxSelectionSteps)
    \/ ListClick(MaxSelectionSteps)
    \/ HostSelect(MaxSelectionSteps)
    \/ HostDelete(MaxSelectionSteps)
    \/ DeliverEvent(MaxSelectionSteps)

SpecSelection == InitPanel /\ [][NextSelection]_vars

\* the callback of the host's selection event ran in the panel, the panel
\* not being the active window, and returned
SelectionApplied ==
    /\ last.op = "update_list_selection"
    /\ last.processed /\ ~last.active /\ last.errors = 0

\* C25: after the window's update_list_selection(selected) every row of the
\* list is highlighted exactly when its name is in `selected`, and the most
\* recently selected light is the last row, in list order, whose name is in
\* `selected`, or no light when there is none, whatever it was before.
C25_ListFollowsSelected ==
    SelectionApplied
    => /\ win.selected = Range(win.lightsArray) \cap Range(pre.selection)
       /\ win.latest_light_selected =
              IF win.selected = {} THEN None
              ELSE LastIn(win.lightsArray, Range(pre.selection))

\* the host's selection given in the order opposite to the list's, the
\* window holding another light before; and a selection emptied
C25_Witness ==
    /\ SelectionApplied
    /\ pre.selection = <<spotB, lightA>>
    /\ last.before.latest_light_selected = lightA
    /\ last.before.selected = {lightA}
    /\ win.selected = {lightA, spotB}
    /\ win.latest_light_selected = spotB

\* the rows of the list whose light is in the document
Resolvable == {n \in Range(win.lightsArray) : n \in host.nodes}

\* C26: update_maya_selection, run for a change of the highlighted rows,
\* raises nothing when a tracked name no longer resolves to a light: it
\* skips the name.  When it has returned, every tracked name that resolves
\* is in the host's selection exactly when its row is highlighted; the most
\* recently selected light is the last highlighted name, in list order, that
\* resolves, or no light, the intensity label then reading N/A; and every
\* select and deselect call was made inside one and the same undo chunk.
C26_HostFollowsList ==
    last.op = "update_maya_selection"
    => /\ last.exc = "none"
       /\ \A n \in Resolvable : (n \in Range(host.selection)) <=> (n \in win.selected)
       /\ win.latest_light_selected =
              IF win.selected \cap Resolvable = {} THEN None
              ELSE LastIn(win.lightsArray, win.selected \cap Resolvable)
       /\ win.latest_light_selected = None
              => win.currentintensity_label = <<"N/A">>
       /\ Cardinality({i \in 1..Len(log) : log[i] = <<"openChunk">>}) = 1
       /\ Cardinality({i \in 1..Len(log) : log[i] = <<"closeChunk">>}) = 1
       /\ \A i \in 1..Len(log) :
              log[i][1] = "select"
              => /\ OpenBefore(i) = 1
                 /\ \E j \in (i + 1)..Len(log) : log[j] = <<"closeChunk">>
       /\ host.undoOpen = 0

\* both rows highlighted after the light of the last row was deleted: the
\* first light is selected in the host and is the one stored
C26_Witness ==
    /\ last.op = "update_maya_selection"
    /\ last.exc = "none"
    /\ win.lightsArray = <<lightA, spotB>>
    /\ win.selected = {lightA, spotB}
    /\ spotB \notin host.nodes
    /\ host.selection = <<lightA>>
    /\ \E i \in 1..Len(log) : log[i] = <<"select", lightA, "add">>
    /\ win.latest_light_selected = lightA

\* C27: the callback of the host's selection event changes nothing in the
\* window (highlighted rows, stored light, intensity label, colour mirrors)
\* nor in the host's selection while the panel is the active window; it
\* brings the host's selection to the list only when the panel is not the
\* active window.
C27_ActivePanelIgnoresEvent ==
    (last.op = "update_list_selection" /\ last.processed /\ last.errors = 0)
    => /\ last.active => (win = last.before /\ host.selection = pre.selection)
       /\ win # last.before => ~last.active
       /\ ~last.active =>
              win.selected = Range(win.lightsArray) \cap Range(pre.selection)

\* the panel active, a highlighted row whose light is no longer in the
\* host's selection: the event leaves the row highlighted
C27_Witness ==
    /\ last.op = "update_list_selection" /\ last.processed /\ last.active
    /\ win.selected = {lightA, spotB}
    /\ Range(host.selection) = {spotB}
    /\ win.latest_light_selected = spotB
    /\ win = last.before

(***************************************************************************)
(* The render layer shown by the panel                                     *)
(***************************************************************************)
\* the window has just been updated for the host's current render layer: by
\* the callback of the layer event, or by show()
LayerRefreshed ==
    \/ last.op = "render_layer_changed" /\ last.processed /\ last.errors = 0
    \/ last.op = "show" /\ last.exc = "none"

\* C28: after every processed render-layer-changed event, and after the
\* update of the window's render layer at start-up, the window's current
\* render layer is the host's, the render-layer-only mode is off, the cached
\* membership is empty, the toggle button reads "Show Current Render Layer
\* Only" and no row is hidden.
C28_LayerChangeResetsMode ==
    LayerRefreshed
    => /\ win.current_render_layer = host.currentLayer
       /\ win.render_layer_only = FALSE
       /\ win.render_layer_array = {}
       /\ win.renderlayer_button.text = ShowCurrentText
       /\ win.hidden = {}

\* the event arrives while the mode is on and a row is hidden
C28_Witness ==
    /\ last.op = "render_layer_changed" /\ last.processed /\ last.errors = 0
    /\ last.before.render_layer_only
    /\ last.before.render_layer_array = {lightA}
    /\ last.before.hidden = {spotB}
    /\ last.before.current_render_layer = "layer1"
    /\ win.current_render_layer = DefaultLayer
    /\ win.hidden = {}

\* C29: each press of the toggle button flips the render-layer-only flag;
\* a press that turns the mode on caches the members the host holds, at that
\* moment, for the window's current render layer; and in every state of a
\* live window the button reads "Show All Lights" exactly when the flag is on.
C29_ToggleFlipsMode ==
    /\ win.live => ((win.renderlayer_button.text = ShowAllText) <=> win.render_layer_only)
    /\ win.live => win.renderlayer_button.text \in {ShowAllText, ShowCurrentText}
    /\ last.op = "render_layer_only"
         => /\ last.exc = "none"
            /\ win.render_layer_only = ~last.before.render_layer_only
            /\ win.render_layer_only
                 => win.render_layer_array = pre.members[last.before.current_render_layer]

\* the mode turned on after a light was added to the layer: the cache holds
\* the members of that moment
C29_Witness ==
    /\ last.op = "render_layer_only"
    /\ ~last.before.render_layer_only
    /\ win.render_layer_only
    /\ win.current_render_layer = "layer1"
    /\ win.render_layer_array = {lightA, spotB}
    /\ win.renderlayer_button.text = ShowAllText

\* C31: while the render-layer-only mode is on, every visible row names a
\* member of the host's current render layer, also just after
\* add_to_render_layer or remove_from_render_layer changed the membership
\* (stated for a window that knows the host's current layer and whose rows
\* all name lights of the document).
C31_VisibleRowsAreMembers ==
    /\ last.op \in {"add_to_render_layer", "remove_from_render_layer"}
    /\ last.exc = "none"
    /\ win.render_layer_only
    /\ win.current_render_layer = host.currentLayer
    /\ Range(win.lightsArray) \subseteq host.nodes
    => \A n \in Range(win.lightsArray) :
          Visible(n) => n \in host.members[host.currentLayer]

(***************************************************************************)
(* The callback registry when the host may refuse a registration           *)
(***************************************************************************)
MaxRegistrySteps == 3

\* show(), the host refusing the registrations of `refused`
ShowRefusedCall(max) ==
    /\ calls < max
    /\ \E refused \in SUBSET {"SelectionChanged", "renderLayerManagerChange"} :
         \E st \in {show([Start(host, win) EXCEPT !.refused = refused])} :
             WindowCall(st, [op |-> "show", after |-> last.op, refused |-> refused,
                             exc |-> st.exc])

\* a click on the "listen to timeline" checkbox, the host refusing or not
\* the registration for timeChanged
TimelineListenerRefusedClick(max) ==
    /\ calls < max
    /\ win.live /\ win.visible
    /\ \E refused \in SUBSET {"timeChanged"} :
         \E st \in {timelistener_trigger(
                        [Start(host, [Focus(win, TRUE) EXCEPT
                                         !.timeline_listener = ~win.timeline_listener])
                            EXCEPT !.refused = refused])} :
             WindowCall(st, [op |-> "timelistener_trigger", refused |-> refused,
                             handles |-> Len(win.idCallback), exc |-> st.exc])

NextRegistry ==
    \/ ShowRefusedCall(MaxRegistrySteps)
    \/ TimelineListenerRefusedClick(MaxRegistrySteps)
    \/ CloseEventCall(MaxRegistrySteps)

SpecRegistry == InitPanel /\ [][NextRegistry]_vars

\* C32: a click on the "listen to timeline" checkbox never raises, whatever
\* the callback registry holds: also when an earlier registration was
\* refused and the registry holds fewer than three handles.
C32_TimelineToggleNeverRaises ==
    last.op = "timelistener_trigger" => last.exc = "none"

\* C33: every handle the panel registered is given to removeCallback exactly
\* once: each removal, by a click on the checkbox or by the close event,
\* is of a handle the host still holds, and after the close event the host
\* holds no callback of the panel.
C33_EachHandleRemovedOnce ==
    /\ \A i \in 1..Len(log) :
          log[i][1] = "removeCallback"
          => /\ \E cb \in pre.callbacks : cb.id = log[i][2]
             /\ \A j \in 1..(i - 1) : log[j] # log[i]
    /\ last.op = "closeEvent" => \A cb \in host.callbacks : cb.panel # win.panel

\* C34: Apply Intensity with a numeric quantity while no row is highlighted
\* and no light is the most recently selected one warns "Please select one
\* or more lights ...", changes nothing in the document and returns without
\* raising.
C34_ApplyWithoutSelection ==
    /\ last.op = "apply_intensity"
    /\ float(last.text).ok
    /\ last.items = <<>>
    /\ win.latest_light_selected = None
    => /\ \E i \in 1..Len(log) : log[i] = <<"warning", SelectWarning>>
       /\ Doc(host) = Doc(pre)
       /\ last.exc = "none"

\* C35: Apply Shadow over one or more lights sets keyframes exactly when the
\* "Set Keyframe" checkbox of the Shadow Color group is checked, whatever
\* the state of the checkbox of the Color group; and Apply Color exactly
\* when the checkbox of the Color group is checked.
C35_OwnCheckboxDecides ==
    (last.op \in {"apply_color_change", "apply_shadow_change"} /\ last.lights # <<>>)
    => ((\E i \in 1..Len(log) : log[i][1] = "setKeyframe")
        <=> IF last.op = "apply_shadow_change" THEN last.shadow_keyframe
            ELSE last.keyframe)

(***************************************************************************)
(* What giveme_light_color and giveme_shadow_color return                  *)
(***************************************************************************)
\* the boxes and the stored colour of the group the last call read
GivemeBoxes == IF last.op = "giveme_light_color" THEN LightBoxes ELSE ShadowBoxes
GivemeStored ==
    IF last.op = "giveme_light_color" THEN win.color_light ELSE win.color_shadow

MaxLayerSteps == 3

NextLayer ==
    \/ ShowCall(MaxLayerSteps)
    \/ ListClick(MaxLayerSteps)
    \/ AddToRenderLayerCall(MaxLayerSteps, {{}, {"editRenderLayerMembers"}})
    \/ RemoveFromRenderLayerCall(MaxLayerSteps, {{}, {"editRenderLayerMembers"}})
    \/ HostDelete(MaxLayerSteps)

SpecLayer == InitPanel /\ [][NextLayer]_vars

\* C37: add_to_render_layer leaves the members of the window's current
\* render layer equal to the previous members united with the highlighted
\* lights that resolve, remove_from_render_layer equal to the previous
\* members minus those lights; the members of every other layer are
\* unchanged; when the host refuses the edit, add raises RuntimeError and
\* remove emits a warning, and no layer is changed.
C37_MembersEdited ==
    last.op \in {"add_to_render_layer", "remove_from_render_layer"}
    => LET layer == win.current_render_layer
           add == last.op = "add_to_render_layer"
       IN  /\ \A y \in Layers \ {layer} : host.members[y] = pre.members[y]
           /\ last.refused = {}
                => /\ last.exc = "none"
                   /\ host.members[layer] =
                          IF add THEN pre.members[layer] \cup Range(last.lights)
                          ELSE pre.members[layer] \ Range(last.lights)
           /\ last.refused # {}
                => /\ host.members = pre.members
                   /\ add => last.exc = "RuntimeError"
                   /\ ~add => /\ last.exc = "none"
                               /\ \E i \in 1..Len(log) : log[i][1] = "warning"

\* a light added to a layer that had another member
C37_Witness ==
    /\ last.op = "add_to_render_layer"
    /\ last.refused = {}
    /\ last.lights = <<spotB>>
    /\ win.current_render_layer = "layer1"
    /\ pre.members["layer1"] = {lightA}
    /\ host.members["layer1"] = {lightA, spotB}

\* C38: after fill_itemlist has run with a non-empty selection in the host,
\* the intensity label and the mirrors of the colour and of the shadow colour
\* show the host's values of the light recorded in latest_light_selected.
C38_DetailsOfLatest ==
    (last.op \in {"fill_itemlist", "show"} /\ last.exc = "none" /\ pre.selection # <<>>)
    => LET latest == win.latest_light_selected IN
       /\ latest \in host.nodes
       /\ win.currentintensity_label =
              update_intensity_label(win, host.attr[latest]["intensity"]).currentintensity_label
       /\ win.color_light = receive_mayacolor(win, host.attr[latest]["color"]).color_light
       /\ win.color_shadow =
              receive_mayashadow(win, host.attr[latest]["shadowColor"]).color_shadow

====
